---- MODULE Spec2Model ----
(***************************************************************************)
(* Model of mp4seek/iso.py: the sample-table arithmetic, the movie-header  *)
(* rewrite (cut_moov and its helpers), the sync-point selector and the     *)
(* split emitter.                                                          *)
(*                                                                         *)
(* Python lists are sequences (1-based here, 0-based in the source); table *)
(* rows are tuples.  Times in seconds, which the source holds as floats,   *)
(* are exact rationals <<numerator, denominator>> with denominator > 0.    *)
(***************************************************************************)
EXTENDS Integers, Sequences, FiniteSets, TLC

VARIABLES
    alist,        \* top-level atoms of the input file, in file order
    amoov,        \* the parsed moov box of the input file
    t,            \* the time handed to split / find_nearest_syncpoint
    pc,           \* position in the running operation
    nmoov,        \* moov returned by cut_moov
    delta,        \* second value returned by cut_moov
    new_offset,   \* third value returned by cut_moov
    out_f,        \* what has been written to the output file so far
    args,         \* arguments of a direct call of a table function
    ret           \* value returned by that call

vars == <<alist, amoov, t, pc, nmoov, delta, new_offset, out_f, args, ret>>

(***************************************************************************)
(* Python list and number helpers                                          *)
(***************************************************************************)
Min(a, b) == IF a < b THEN a ELSE b

Max(a, b) == IF a > b THEN a ELSE b

Abs(a) == IF a < 0 THEN -a ELSE a

\* the division rounded down instead of up
CeilAsFloor(a, d) == a \div d

\* math.ceil(a / float(d)) for d > 0
Ceil(a, d) == -((-a) \div d)

\* a Python slice bound: negative counts from the end, then clamped
PyIndex(n, i) == IF i < 0 THEN Max(0, n + i) ELSE Min(i, n)

\* s[a:b] of Python (a, b are 0-based bounds)
PySlice(s, a, b) ==
    LET lo == PyIndex(Len(s), a)
        hi == PyIndex(Len(s), b)
    IN  IF hi <= lo THEN <<>> ELSE SubSeq(s, lo + 1, hi)

\* s[a:] of Python
PyFrom(s, a) == PySlice(s, a, Len(s))

RECURSIVE Sum(_)
Sum(s) == IF s = <<>> THEN 0 ELSE s[1] + Sum(Tail(s))

\* min([...]) of Python over a non-empty list
MinOf(s) == CHOOSE x \in {s[i] : i \in DOMAIN s} : \A j \in DOMAIN s : x <= s[j]

(***************************************************************************)
(* Sample-table arithmetic                                                 *)
(***************************************************************************)
RECURSIVE find_samplenum_stts_loop(_, _, _, _, _)
find_samplenum_stts_loop(stts, mt, i, ctime, samples) ==
    IF i > Len(stts) THEN samples
    ELSE IF mt = ctime THEN samples
    ELSE LET count  == stts[i][1]
             dlt    == stts[i][2]
             cdelta == count * dlt
         IN  IF mt < ctime + cdelta
             THEN samples + Ceil(mt - ctime, dlt)
             ELSE find_samplenum_stts_loop(stts, mt, i + 1, ctime + cdelta,
                                           samples + count)

find_samplenum_stts(stts, mt) == find_samplenum_stts_loop(stts, mt, 1, 0, 1)

RECURSIVE find_mediatime_stts_loop(_, _, _, _, _)
find_mediatime_stts_loop(stts, sample, i, ctime, samples) ==
    IF i > Len(stts) THEN ctime
    ELSE LET count == stts[i][1]
             dlt   == stts[i][2]
         IN  IF samples + count >= sample
             THEN ctime + (sample - samples) * dlt
             ELSE find_mediatime_stts_loop(stts, sample, i + 1,
                                           ctime + count * dlt, samples + count)

find_mediatime_stts(stts, sample) == find_mediatime_stts_loop(stts, sample, 1, 0, 1)

RECURSIVE find_mediatimes_loop(_, _, _, _, _, _, _)
find_mediatimes_loop(stts, samples, i, j, ctime, total_samples, acc) ==
    IF i > Len(stts) \/ j > Len(samples) THEN acc
    ELSE LET count  == stts[i][1]
             dlt    == stts[i][2]
             sample == samples[j]
         IN  IF total_samples + count >= sample
             THEN find_mediatimes_loop(stts, samples, i, j + 1, ctime, total_samples,
                      Append(acc, ctime + (sample - total_samples) * dlt))
             ELSE find_mediatimes_loop(stts, samples, i + 1, j, ctime + count * dlt,
                      total_samples + count, acc)

find_mediatimes(stts, samples) == find_mediatimes_loop(stts, samples, 1, 1, 0, 1, <<>>)

\* the loop of find_chunknum_stsc: the range (current, per_chunk) holding
\* sample_num and the number of the first sample of that range
RECURSIVE find_chunknum_stsc_loop(_, _, _, _, _, _)
find_chunknum_stsc_loop(stsc, sample_num, i, current, per_chunk, samples) ==
    IF i > Len(stsc)
    THEN [current |-> current, per_chunk |-> per_chunk, samples |-> samples]
    ELSE LET next         == stsc[i][1]
             samples_here == (next - current) * per_chunk
         IN  IF samples + samples_here > sample_num
             THEN [current |-> current, per_chunk |-> per_chunk, samples |-> samples]
             ELSE find_chunknum_stsc_loop(stsc, sample_num, i + 1, next, stsc[i][2],
                                          samples + samples_here)

\* the final division of find_chunknum_stsc raises ZeroDivisionError
find_chunknum_stsc_raises(stsc, sample_num) ==
    find_chunknum_stsc_loop(stsc, sample_num, 1, 1, 0, 1).per_chunk = 0

\* find_chunknum_stsc that counts the samples of the range from sample 1
find_chunknum_stsc_from_one(stsc, sample_num) ==
    LET r == find_chunknum_stsc_loop(stsc, sample_num, 1, 1, 0, 1)
    IN  ((sample_num - 1) \div r.per_chunk) + r.current

\* find_chunknum_stsc with the final division rounded up
find_chunknum_stsc_round_up(stsc, sample_num) ==
    LET r == find_chunknum_stsc_loop(stsc, sample_num, 1, 1, 0, 1)
    IN  ((sample_num - r.samples + r.per_chunk - 1) \div r.per_chunk) + r.current

find_chunknum_stsc(stsc, sample_num) ==
    LET r == find_chunknum_stsc_loop(stsc, sample_num, 1, 1, 0, 1)
    IN  ((sample_num - r.samples) \div r.per_chunk) + r.current

\* stco64[chunk_num - 1] raises IndexError outside the list
get_chunk_offset_raises(stco64, chunk_num) ==
    ~ (chunk_num - 1 \in (-Len(stco64)) .. (Len(stco64) - 1))

get_chunk_offset(stco64, chunk_num) ==
    IF chunk_num - 1 < 0 THEN stco64[Len(stco64) + chunk_num]
    ELSE stco64[chunk_num]

(***************************************************************************)
(* Header rewriter: the table cuts                                         *)
(***************************************************************************)
\* cut_stco64 without the adjustment of the first entry
cut_stco64_no_first_chunk_delta(stco64, chunk_num, offset_change, first_chunk_delta) ==
    [k \in DOMAIN PyFrom(stco64, chunk_num - 1) |->
        PyFrom(stco64, chunk_num - 1)[k] - offset_change]

\* cut_stco64 that takes chunk_num as a 0-based index
cut_stco64_zero_based(stco64, chunk_num, offset_change, first_chunk_delta) ==
    [k \in DOMAIN PyFrom(stco64, chunk_num) |->
        IF k = 1 THEN PyFrom(stco64, chunk_num)[k] - offset_change + first_chunk_delta
        ELSE PyFrom(stco64, chunk_num)[k] - offset_change]

cut_stco64(stco64, chunk_num, offset_change, first_chunk_delta) ==
    LET tail      == PyFrom(stco64, chunk_num - 1)
        new_table == [k \in DOMAIN tail |-> tail[k] - offset_change]
    IN  IF new_table # <<>> /\ first_chunk_delta # 0
        THEN [new_table EXCEPT ![1] = new_table[1] + first_chunk_delta]
        ELSE new_table

\* the while loop of cut_stco64_stsc; sdidx None is 0, new_stsc None is <<>>
RECURSIVE cut_stco64_stsc_loop(_, _, _, _, _, _, _)
cut_stco64_stsc_loop(stsc, chunk_num, i, current, per_chunk, sdidx, samples) ==
    IF i > Len(stsc)
    THEN [new_stsc |-> <<>>, per_chunk |-> per_chunk, sdidx |-> sdidx,
          samples |-> samples]
    ELSE LET next == stsc[i][1]
         IN  IF next > chunk_num
             THEN LET offset == chunk_num - 1
                      rest   == PyFrom(stsc, i - 1)
                  IN  [new_stsc |-> <<<<1, per_chunk, sdidx>>>> \o
                            [k \in DOMAIN rest |->
                               <<rest[k][1] - offset, rest[k][2], rest[k][3]>>],
                       per_chunk |-> per_chunk, sdidx |-> sdidx,
                       samples |-> samples]
             ELSE cut_stco64_stsc_loop(stsc, chunk_num, i + 1, next, stsc[i][2],
                      stsc[i][3], samples + (next - current) * per_chunk)

\* cut_stco64_stsc_lead that always inserts the row for chunk 2
cut_stco64_stsc_lead_always_insert(stco64, stsz2, chunk_num, sample_num, offset_change, new_stsc, lead_samples) ==
    [stco64 |-> cut_stco64(stco64, chunk_num, offset_change,
                    IF lead_samples > 0
                    THEN Sum(PySlice(stsz2, sample_num - 1 - lead_samples,
                                     sample_num - 1))
                    ELSE 0),
     stsc   |-> IF lead_samples > 0
                THEN << <<1, new_stsc[1][2] - lead_samples, new_stsc[1][3]>>,
                        <<2, new_stsc[1][2], new_stsc[1][3]>> >>
                     \o Tail(new_stsc)
                ELSE new_stsc]

\* the rest of cut_stco64_stsc once lead_samples is known; new_stsc is the
\* table the loop (or the fallback after it) produced
cut_stco64_stsc_lead(stco64, stsz2, chunk_num, sample_num, offset_change, new_stsc, lead_samples) ==
    [stco64 |-> cut_stco64(stco64, chunk_num, offset_change,
                    IF lead_samples > 0
                    THEN Sum(PySlice(stsz2, sample_num - 1 - lead_samples,
                                     sample_num - 1))
                    ELSE 0),
     stsc   |-> IF lead_samples > 0
                THEN IF Len(new_stsc) > 1 /\ new_stsc[2][1] = 2
                     THEN [new_stsc EXCEPT
                              ![1] = <<1, new_stsc[1][2] - lead_samples,
                                       new_stsc[1][3]>>]
                     ELSE << <<1, new_stsc[1][2] - lead_samples, new_stsc[1][3]>>,
                             <<2, new_stsc[1][2], new_stsc[1][3]>> >>
                          \o Tail(new_stsc)
                ELSE new_stsc]

\* cut_stco64_stsc_after that takes every cut as a cut on a chunk boundary
cut_stco64_stsc_after_no_lead(stco64, stsz2, chunk_num, sample_num, offset_change, r) ==
    cut_stco64_stsc_lead(stco64, stsz2, chunk_num, sample_num, offset_change,
        IF r.new_stsc = <<>> THEN << <<1, r.per_chunk, r.sdidx>> >> ELSE r.new_stsc,
        0)

\* the part of cut_stco64_stsc after the loop; r is the state the loop ended in
cut_stco64_stsc_after(stco64, stsz2, chunk_num, sample_num, offset_change, r) ==
    cut_stco64_stsc_lead(stco64, stsz2, chunk_num, sample_num, offset_change,
        IF r.new_stsc = <<>> THEN << <<1, r.per_chunk, r.sdidx>> >> ELSE r.new_stsc,
        (sample_num - r.samples) % r.per_chunk)

cut_stco64_stsc(stco64, stsc, stsz2, chunk_num, sample_num, offset_change) ==
    cut_stco64_stsc_after(stco64, stsz2, chunk_num, sample_num, offset_change,
        cut_stco64_stsc_loop(stsc, chunk_num, 1, 1, 0, 0, 1))

RECURSIVE cut_sctts_loop(_, _, _, _)
cut_sctts_loop(sctts, sample, i, samples) ==
    IF i > Len(sctts) THEN <<>>
    ELSE LET count == sctts[i][1]
         IN  IF samples + count > sample
             THEN <<<<samples + count - sample, sctts[i][2]>>>> \o PyFrom(sctts, i)
             ELSE cut_sctts_loop(sctts, sample, i + 1, samples + count)

\* cut_sctts that counts samples from 0
cut_sctts_from_zero(sctts, sample) == cut_sctts_loop(sctts, sample, 1, 0)

cut_sctts(sctts, sample) == cut_sctts_loop(sctts, sample, 1, 1)

RECURSIVE cut_stss_loop(_, _, _)
cut_stss_loop(stss, sample, i) ==
    IF i > Len(stss) THEN <<>>
    ELSE IF stss[i] >= sample
         THEN LET rest == PyFrom(stss, i - 1)
              IN  [k \in DOMAIN rest |-> rest[k] - sample + 1]
         ELSE cut_stss_loop(stss, sample, i + 1)

\* cut_stss that renumbers the entries from 0
cut_stss_zero_based(stss, sample) ==
    [k \in DOMAIN cut_stss_loop(stss, sample, 1) |->
        cut_stss_loop(stss, sample, 1)[k] - 1]

cut_stss(stss, sample) == cut_stss_loop(stss, sample, 1)

cut_stsz2(stsz2, sample) ==
    IF stsz2 = <<>> THEN <<>> ELSE PyFrom(stsz2, sample - 1)

(***************************************************************************)
(* Times in seconds as exact rationals                                     *)
(***************************************************************************)
RLt(a, b) == a[1] * b[2] < b[1] * a[2]

REq(a, b) == a[1] * b[2] = b[1] * a[2]

RSub(a, b) == <<a[1] * b[2] - b[1] * a[2], a[2] * b[2]>>

RAbs(a) == <<Abs(a[1]), a[2]>>

\* int(round(t * ts)): round half away from zero
RoundMul(tt, ts) ==
    LET n == tt[1] * ts
        d == tt[2]
    IN  IF n >= 0 THEN (2 * n + d) \div (2 * d)
        ELSE -((2 * (-n) + d) \div (2 * d))

(***************************************************************************)
(* Box sizes.  A trak is the record                                        *)
(*   [tkhd_duration, mdhd_timescale, mdhd_duration, stts, has_ctts, ctts,  *)
(*    has_stss, stss, sample_size, stz2_field_size, stsz2, stsc, co64,     *)
(*    stco64]                                                              *)
(* where stsz2 / stco64 are the tables of (stsz or stz2) / (stco or co64), *)
(* stz2_field_size = 0 says the size box is an stsz, and co64 says the     *)
(* chunk-offset box is a co64.  A moov is [mvhd |-> [timescale, duration], *)
(* trak |-> sequence of traks].  The input files hold only the boxes the   *)
(* rewrite reads; mvhd, tkhd and mdhd are version 0.                       *)
(***************************************************************************)
\* Atom.head_size(): 8, or 16 with a 64-bit extended size
head_size(a) == IF a.real_size = 1 THEN 16 ELSE 8

\* head_size_ext() of a full atom with a 32-bit size: head, version and flags
FullHeadSize == 12

\* head_size_ext() of a container atom with a 32-bit size
ContainerHeadSize == 8

\* bytes of a version 0 mvhd / tkhd / mdhd as read and written back
MvhdSize == 108

TkhdSize == 92

MdhdSize == 32

tabled_size(table, body_size, loop_size) ==
    FullHeadSize + body_size + Len(table) * loop_size

stsz_get_size(tr) ==
    IF tr.stz2_field_size # 0
    THEN FullHeadSize + 8 + ((Len(tr.stsz2) * tr.stz2_field_size) \div 8)
    ELSE IF tr.sample_size # 0 THEN FullHeadSize + 8
    ELSE tabled_size(tr.stsz2, 8, 4)

stbl_get_size(tr) ==
    ContainerHeadSize
    + tabled_size(tr.stts, 4, 8)
    + (IF tr.has_ctts THEN tabled_size(tr.ctts, 4, 8) ELSE 0)
    + (IF tr.has_stss THEN tabled_size(tr.stss, 4, 4) ELSE 0)
    + stsz_get_size(tr)
    + tabled_size(tr.stsc, 4, 12)
    + tabled_size(tr.stco64, 4, IF tr.co64 THEN 8 ELSE 4)

trak_get_size(tr) ==
    ContainerHeadSize + TkhdSize
    + (ContainerHeadSize + MdhdSize + (ContainerHeadSize + stbl_get_size(tr)))

RECURSIVE SumTrakSizes(_)
SumTrakSizes(traks) ==
    IF traks = <<>> THEN 0
    ELSE trak_get_size(traks[1]) + SumTrakSizes(Tail(traks))

moov_get_size(mv) == ContainerHeadSize + MvhdSize + SumTrakSizes(mv.trak)

(***************************************************************************)
(* Header rewriter                                                         *)
(***************************************************************************)
find_cut_trak_info_raises(atrak, tt) ==
    LET mt     == RoundMul(tt, atrak.mdhd_timescale)
        sample == find_samplenum_stts(atrak.stts, mt)
    IN  IF find_chunknum_stsc_raises(atrak.stsc, sample) THEN "ZeroDivisionError"
        ELSE IF get_chunk_offset_raises(atrak.stco64,
                                        find_chunknum_stsc(atrak.stsc, sample))
                \/ get_chunk_offset_raises(atrak.stco64, 1)
             THEN "IndexError"
        ELSE ""

find_cut_trak_info(atrak, tt) ==
    LET mt     == RoundMul(tt, atrak.mdhd_timescale)
        sample == find_samplenum_stts(atrak.stts, mt)
        chunk  == find_chunknum_stsc(atrak.stsc, sample)
    IN  [sample       |-> sample,
         chunk        |-> chunk,
         zero_offset  |-> get_chunk_offset(atrak.stco64, 1),
         chunk_offset |-> get_chunk_offset(atrak.stco64, chunk)]

\* the copies cut_trak makes; cut is the pair of tables cut_stco64_stsc returned
cut_trak_copy(atrak, sample, cut) ==
    [atrak EXCEPT
        !.stco64        = cut.stco64,
        !.stsc          = cut.stsc,
        !.stsz2         = cut_stsz2(atrak.stsz2, sample),
        !.stts          = cut_sctts(atrak.stts, sample),
        !.ctts          = IF atrak.has_ctts THEN cut_sctts(atrak.ctts, sample)
                          ELSE atrak.ctts,
        !.stss          = IF atrak.has_stss THEN cut_stss(atrak.stss, sample)
                          ELSE atrak.stss,
        !.mdhd_duration = atrak.mdhd_duration
                          - find_mediatime_stts(atrak.stts, sample)]

cut_trak(atrak, sample, data_offset_change) ==
    cut_trak_copy(atrak, sample,
        cut_stco64_stsc(atrak.stco64, atrak.stsc, atrak.stsz2,
                        find_chunknum_stsc(atrak.stsc, sample), sample,
                        data_offset_change))

update_offsets(atrak, data_offset_change) ==
    [atrak EXCEPT !.stco64 = cut_stco64(atrak.stco64, 1, data_offset_change, 0)]

\* update_trak_duration, the closure of cut_moov; ts is the movie timescale
update_trak_duration(atrak, ts) ==
    [atrak EXCEPT !.tkhd_duration =
                      (atrak.mdhd_duration * ts) \div atrak.mdhd_timescale]

\* cut_moov_raises with the duration test strict
cut_moov_raises_strict(mv, tt) ==
    IF tt[1] * mv.mvhd.timescale > mv.mvhd.duration * tt[2]
    THEN "RuntimeError"
    ELSE IF \E k \in DOMAIN mv.trak : find_cut_trak_info_raises(mv.trak[k], tt) # ""
         THEN find_cut_trak_info_raises(
                  mv.trak[CHOOSE k \in DOMAIN mv.trak :
                             /\ find_cut_trak_info_raises(mv.trak[k], tt) # ""
                             /\ \A j \in 1 .. (k - 1) :
                                    find_cut_trak_info_raises(mv.trak[j], tt) = ""], tt)
    ELSE ""

\* the first exception cut_moov raises for (amoov, tt), "" when it returns
cut_moov_raises(mv, tt) ==
    LET traks == mv.trak
        bad   == {k \in DOMAIN traks : find_cut_trak_info_raises(traks[k], tt) # ""}
    IN  IF tt[1] * mv.mvhd.timescale >= mv.mvhd.duration * tt[2]
        THEN "RuntimeError"
        ELSE IF bad # {}
             THEN find_cut_trak_info_raises(
                      traks[CHOOSE k \in bad : \A j \in bad : k <= j], tt)
        ELSE ""

\* the end of cut_moov: durations, then the second pass over the offsets
cut_moov_update(mv, new_moov, moov_size_diff, data_delta, new_data_offset) ==
    [new_moov |-> [new_moov EXCEPT !.trak =
                      [k \in DOMAIN new_moov.trak |->
                          update_offsets(
                              update_trak_duration(new_moov.trak[k], mv.mvhd.timescale),
                              moov_size_diff)]],
     delta           |-> data_delta,
     new_data_offset |-> new_data_offset]

\* cut_moov once new_data_offset and zero_offset are known
cut_moov_traks(mv, cut_info, new_data_offset, zero_offset) ==
    cut_moov_update(mv,
        [mv EXCEPT !.trak = [k \in DOMAIN mv.trak |->
                                cut_trak(mv.trak[k], cut_info[k].sample,
                                         new_data_offset - zero_offset)]],
        moov_get_size(mv)
        - moov_get_size([mv EXCEPT !.trak =
                            [k \in DOMAIN mv.trak |->
                                cut_trak(mv.trak[k], cut_info[k].sample,
                                         new_data_offset - zero_offset)]]),
        new_data_offset - zero_offset, new_data_offset)

\* cut_moov once the cut_info of every trak is known
cut_moov_info(mv, cut_info) ==
    cut_moov_traks(mv, cut_info,
        MinOf([k \in DOMAIN cut_info |-> cut_info[k].chunk_offset]),
        MinOf([k \in DOMAIN cut_info |-> cut_info[k].zero_offset]))

cut_moov(mv, tt) ==
    cut_moov_info(mv, [k \in DOMAIN mv.trak |-> find_cut_trak_info(mv.trak[k], tt)])

(***************************************************************************)
(* Sync-point selector                                                     *)
(***************************************************************************)
\* find_sync_samples, the closure of find_sync_points
find_sync_samples(a) ==
    IF ~ a.has_stss THEN <<>>
    ELSE LET mts == find_mediatimes(a.stts, a.stss)
         IN  [k \in DOMAIN mts |-> <<mts[k], a.mdhd_timescale>>]

\* find_sync_points that takes the first trak with an stss, empty or not
find_sync_points_first_stss(mv) ==
    LET with_stss == {k \in DOMAIN mv.trak : mv.trak[k].has_stss}
    IN  IF with_stss # {}
        THEN find_sync_samples(mv.trak[CHOOSE k \in with_stss :
                                          \A j \in with_stss : k <= j])
        ELSE <<>>

find_sync_points(mv) ==
    LET nonempty == {k \in DOMAIN mv.trak : find_sync_samples(mv.trak[k]) # <<>>}
    IN  IF nonempty # {}
        THEN find_sync_samples(mv.trak[CHOOSE k \in nonempty :
                                          \A j \in nonempty : k <= j])
        ELSE <<>>

\* the branch of find_nearest_syncpoint for a movie without sync points
find_nearest_syncpoint_no_syncs(mv, tt) ==
    LET max_ts == <<10 * mv.mvhd.duration - mv.mvhd.timescale,
                    10 * mv.mvhd.timescale>>
        lo     == IF RLt(max_ts, tt) THEN max_ts ELSE tt
    IN  IF RLt(<<0, 1>>, lo) THEN lo ELSE <<0, 1>>

\* the final comparison with <= for <
find_nearest_syncpoint_pick_le(tt, r) ==
    IF ~ RLt(RAbs(RSub(r.other, tt)), RAbs(RSub(tt, r.found)))
    THEN r.found
    ELSE r.other

\* the for loop of find_nearest_syncpoint
RECURSIVE find_nearest_syncpoint_loop(_, _, _, _)
find_nearest_syncpoint_loop(syncs, tt, i, found) ==
    IF i > Len(syncs) THEN [found |-> found, other |-> <<0, 1>>]
    ELSE IF RLt(tt, syncs[i]) THEN [found |-> found, other |-> syncs[i]]
    ELSE find_nearest_syncpoint_loop(syncs, tt, i + 1, syncs[i])

\* find_nearest_syncpoint with <= in the final comparison
find_nearest_syncpoint_ties_found(mv, tt) ==
    IF find_sync_points(mv) = <<>>
    THEN find_nearest_syncpoint_no_syncs(mv, tt)
    ELSE find_nearest_syncpoint_pick_le(tt,
             find_nearest_syncpoint_loop(find_sync_points(mv), tt, 1, <<0, 1>>))

find_nearest_syncpoint(mv, tt) ==
    LET syncs == find_sync_points(mv)
    IN  IF syncs = <<>>
        THEN find_nearest_syncpoint_no_syncs(mv, tt)
        ELSE LET r == find_nearest_syncpoint_loop(syncs, tt, 1, <<0, 1>>)
             IN  IF RLt(RAbs(RSub(tt, r.found)), RAbs(RSub(r.other, tt)))
                 THEN r.found
                 ELSE r.other

(***************************************************************************)
(* Split emitter                                                           *)
(***************************************************************************)
\* find_atom: alist.index(type), 1-based
find_atom(al, type) ==
    CHOOSE i \in DOMAIN al : al[i].type = type /\ \A j \in 1 .. (i - 1) : al[j].type # type

\* update_mdat_atoms_loop that takes the head of an atom for data
RECURSIVE update_mdat_atoms_loop_with_head(_, _, _, _, _)
update_mdat_atoms_loop_with_head(al, i, to_remove, pos, updated) ==
    IF i > Len(al) THEN updated
    ELSE LET a           == al[i]
             size_change == Min(a.size, to_remove)
             remaining   == IF size_change > 0 THEN to_remove - size_change
                            ELSE to_remove
             new_size    == a.size - size_change
             real_size   == IF a.real_size = 1 THEN 1 ELSE new_size
             upd         == Append(updated, [type |-> "mdat", offset |-> pos,
                                             size |-> new_size,
                                             real_size |-> real_size, box |-> FALSE])
         IN  IF remaining = 0 THEN upd
             ELSE update_mdat_atoms_loop_with_head(al, i + 1, remaining, pos + new_size, upd)

RECURSIVE update_mdat_atoms_loop(_, _, _, _, _)
update_mdat_atoms_loop(al, i, to_remove, pos, updated) ==
    IF i > Len(al) THEN updated
    ELSE LET a           == al[i]
             data_size   == a.size - head_size(a)
             size_change == Min(data_size, to_remove)
             remaining   == IF size_change > 0 THEN to_remove - size_change
                            ELSE to_remove
             new_size    == a.size - size_change
             real_size   == IF a.real_size = 1 THEN 1 ELSE new_size
             upd         == Append(updated, [type |-> "mdat", offset |-> pos,
                                             size |-> new_size,
                                             real_size |-> real_size, box |-> FALSE])
         IN  IF remaining = 0 THEN upd
             ELSE update_mdat_atoms_loop(al, i + 1, remaining, pos + new_size, upd)

update_mdat_atoms(al, size_delta) ==
    update_mdat_atoms_loop(al, 1, size_delta, al[1].offset, <<>>)

\* SelectSeq with a test that may use bound names
RECURSIVE Filter(_, _)
Filter(al, keep) ==
    IF al = <<>> THEN <<>>
    ELSE (IF al[1] \in keep THEN <<al[1]>> ELSE <<>>) \o Filter(Tail(al), keep)

\* the atoms of alist[mdat_idx:] that start before the cut offset
to_update(al, size_delta) ==
    LET mdat_idx   == find_atom(al, "mdat")
        mdat       == al[mdat_idx]
        cut_offset == mdat.offset + head_size(mdat) + size_delta
        rest       == PyFrom(al, mdat_idx - 1)
    IN  Filter(rest, {a \in {rest[k] : k \in DOMAIN rest} : a.offset < cut_offset})

\* write_split_header_raises without the test for non-mdat atoms
write_split_header_raises_no_mixed(al, size_delta) ==
    IF to_update(al, size_delta) = <<>> THEN "IndexError" ELSE ""

write_split_header_raises(al, size_delta) ==
    LET tu == to_update(al, size_delta)
    IN  IF \E k \in DOMAIN tu : tu[k].type # "mdat" THEN "FormatError"
        ELSE IF tu = <<>> THEN "IndexError"
        ELSE ""

\* what write_split_header appends to the output: every atom before the
\* first mdat whole (the moov replaced by the new one), then the heads of
\* the updated mdat atoms.  bytes is the number of bytes written, size the
\* value of the size field.
write_split_header(new_moov, al, size_delta) ==
    LET moov_idx == find_atom(al, "moov")
        mdat_idx == find_atom(al, "mdat")
        updated  == update_mdat_atoms(to_update(al, size_delta), size_delta)
        before   == PySlice(al, 0, mdat_idx - 1)
        whole    == [k \in DOMAIN before |->
                        IF k = moov_idx
                        THEN [kind |-> "box", type |-> "moov",
                              bytes |-> moov_get_size(new_moov),
                              size |-> moov_get_size(new_moov)]
                        ELSE [kind |-> "atom", type |-> before[k].type,
                              bytes |-> before[k].size, size |-> before[k].size]]
        heads    == [k \in DOMAIN updated |->
                        [kind |-> "head", type |-> updated[k].type,
                         bytes |-> IF updated[k].real_size = 1 THEN 16 ELSE 8,
                         size |-> updated[k].size]]
    IN  whole \o heads

\* number of bytes of the input file
FileSize(al) == al[Len(al)].offset + al[Len(al)].size

\* number of bytes in the output
RECURSIVE OutBytes(_)
OutBytes(o) == IF o = <<>> THEN 0 ELSE o[1].bytes + OutBytes(Tail(o))

(***************************************************************************)
(* The layout of samples and chunks that the tables of a track describe    *)
(* (ISO/IEC 14496-12), used to build input files and to state properties   *)
(***************************************************************************)
\* samples per chunk of chunk c: the last stsc row with first_chunk <= c
SpcOfChunk(stsc, c) ==
    stsc[CHOOSE i \in DOMAIN stsc :
            /\ stsc[i][1] <= c
            /\ \A j \in DOMAIN stsc : stsc[j][1] <= c => j <= i][2]

RECURSIVE FirstSampleOfChunk(_, _)
FirstSampleOfChunk(stsc, c) ==
    IF c <= 1 THEN 1
    ELSE FirstSampleOfChunk(stsc, c - 1) + SpcOfChunk(stsc, c - 1)

ChunkOfSample(stsc, s) ==
    CHOOSE c \in 1 .. s :
        FirstSampleOfChunk(stsc, c) <= s /\ s < FirstSampleOfChunk(stsc, c + 1)

\* number of samples that nchunks chunks hold
SamplesInChunks(stsc, nchunks) == FirstSampleOfChunk(stsc, nchunks + 1) - 1

\* byte offset in the file of sample s
SampleOffset(stco64, stsc, stsz2, s) ==
    LET c == ChunkOfSample(stsc, s)
    IN  stco64[c] + Sum(SubSeq(stsz2, FirstSampleOfChunk(stsc, c), s - 1))

ChunkBytes(stsc, stsz2, c) ==
    Sum(SubSeq(stsz2, FirstSampleOfChunk(stsc, c), FirstSampleOfChunk(stsc, c + 1) - 1))

RECURSIVE SumCounts(_)
SumCounts(tbl) == IF tbl = <<>> THEN 0 ELSE tbl[1][1] + SumCounts(Tail(tbl))

RECURSIVE SumDurations(_)
SumDurations(tbl) ==
    IF tbl = <<>> THEN 0 ELSE tbl[1][1] * tbl[1][2] + SumDurations(Tail(tbl))

(***************************************************************************)
(* Input files.  A shape is the tables of one track without the chunk      *)
(* offsets; BuildFile lays the chunks of the chosen shapes out in mdat     *)
(* atoms, interleaved track by track, and derives stco/co64 from the       *)
(* layout, as a muxer does.                                                *)
(***************************************************************************)
\* requested times are n/TimeDen seconds for n in -1 .. MaxT
MaxT == 13

TimeDen == 4

\* padding bytes between the head of the first mdat and the first chunk
MaxGap == 1

GapUnit == 4

\* a second mdat may start after the first 1 .. MaxSplit chunks of the file
MaxSplit == 2

FtypSize == 16

FreeSize == 8

MovieTimescale == 2

TrakShapes ==
    << [mdhd_timescale |-> 2, stts |-> << <<6, 1>> >>,
        has_ctts |-> FALSE, ctts |-> <<>>,
        has_stss |-> TRUE, stss |-> <<1, 4>>,
        stsz2 |-> <<3, 5, 2, 7, 4, 6>>,
        stsc |-> << <<1, 2, 1>> >>, nchunks |-> 3, co64 |-> FALSE],
       [mdhd_timescale |-> 4, stts |-> << <<2, 1>>, <<3, 2>> >>,
        has_ctts |-> TRUE, ctts |-> << <<5, 1>> >>,
        has_stss |-> TRUE, stss |-> <<2, 5>>,
        stsz2 |-> <<4, 1, 6, 2, 5>>,
        stsc |-> << <<1, 3, 1>>, <<2, 2, 1>> >>, nchunks |-> 2, co64 |-> FALSE],
       [mdhd_timescale |-> 3, stts |-> << <<6, 1>> >>,
        has_ctts |-> FALSE, ctts |-> <<>>,
        has_stss |-> FALSE, stss |-> <<>>,
        stsz2 |-> <<2, 2, 3, 1, 4, 2>>,
        stsc |-> << <<1, 1, 1>>, <<3, 2, 1>> >>, nchunks |-> 4, co64 |-> TRUE],
       [mdhd_timescale |-> 1, stts |-> << <<3, 1>> >>,
        has_ctts |-> FALSE, ctts |-> <<>>,
        has_stss |-> FALSE, stss |-> <<>>,
        stsz2 |-> <<5, 3, 4>>,
        stsc |-> << <<1, 2, 1>>, <<2, 1, 1>> >>, nchunks |-> 2, co64 |-> FALSE] >>

\* the chunks of the file in file order, as <<track, chunk>>
RECURSIVE ChunkOrder(_, _, _)
ChunkOrder(shs, c, k) ==
    IF \A j \in DOMAIN shs : shs[j].nchunks < c THEN <<>>
    ELSE IF k > Len(shs) THEN ChunkOrder(shs, c + 1, 1)
    ELSE (IF c <= shs[k].nchunks THEN << <<k, c>> >> ELSE <<>>)
         \o ChunkOrder(shs, c, k + 1)

OrderBytes(shs, order) ==
    [j \in DOMAIN order |->
        ChunkBytes(shs[order[j][1]].stsc, shs[order[j][1]].stsz2, order[j][2])]

\* offsets of the chunks in file order; sep bytes (the head of a second mdat,
\* and a free atom before it) follow chunk msplit
RECURSIVE ChunkPositions(_, _, _, _, _)
ChunkPositions(bytes, j, pos, msplit, sep) ==
    IF j > Len(bytes) THEN <<>>
    ELSE <<pos>> \o ChunkPositions(bytes, j + 1,
                        pos + bytes[j] + (IF j = msplit THEN sep ELSE 0), msplit, sep)

RECURSIVE TrackOffsets(_, _, _, _)
TrackOffsets(order, positions, k, j) ==
    IF j > Len(order) THEN <<>>
    ELSE (IF order[j][1] = k THEN <<positions[j]>> ELSE <<>>)
         \o TrackOffsets(order, positions, k, j + 1)

MakeTrak(sh, stco64) ==
    [tkhd_duration   |-> (SumDurations(sh.stts) * MovieTimescale) \div sh.mdhd_timescale,
     mdhd_timescale  |-> sh.mdhd_timescale,
     mdhd_duration   |-> SumDurations(sh.stts),
     stts            |-> sh.stts,
     has_ctts        |-> sh.has_ctts,
     ctts            |-> sh.ctts,
     has_stss        |-> sh.has_stss,
     stss            |-> sh.stss,
     sample_size     |-> 0,
     stz2_field_size |-> 0,
     stsz2           |-> sh.stsz2,
     stsc            |-> sh.stsc,
     co64            |-> sh.co64,
     stco64          |-> stco64]

\* the moov and the atom list of the file with the given layout; an atom is
\* [type, offset, size, real_size, box], box saying that the entry of the
\* list is a parsed box and no longer the atom read from the file
BuildFile(shs, moov_first, gap, msplit, with_free, ext64, duration) ==
    LET order     == ChunkOrder(shs, 1, 1)
        bytes     == OrderBytes(shs, order)
        blank     == [mvhd |-> [timescale |-> MovieTimescale, duration |-> duration],
                      trak |-> [k \in DOMAIN shs |->
                                   MakeTrak(shs[k], [c \in 1 .. shs[k].nchunks |-> 0])]]
        moov_size == moov_get_size(blank)
        mdat_off  == FtypSize + (IF moov_first THEN moov_size ELSE 0)
        head1     == IF ext64 THEN 16 ELSE 8
        free_size == IF with_free /\ msplit # 0 THEN FreeSize ELSE 0
        positions == ChunkPositions(bytes, 1, mdat_off + head1 + gap, msplit,
                                    free_size + 8)
        n1        == IF msplit = 0 THEN Len(bytes) ELSE msplit
        size1     == head1 + gap + Sum(SubSeq(bytes, 1, n1))
        size2     == 8 + Sum(SubSeq(bytes, n1 + 1, Len(bytes)))
        ftyp_a    == [type |-> "ftyp", offset |-> 0, size |-> FtypSize,
                      real_size |-> FtypSize, box |-> FALSE]
        mdat1     == [type |-> "mdat", offset |-> mdat_off, size |-> size1,
                      real_size |-> IF ext64 THEN 1 ELSE size1, box |-> FALSE]
        free_a    == [type |-> "free", offset |-> mdat_off + size1, size |-> FreeSize,
                      real_size |-> FreeSize, box |-> FALSE]
        mdat2     == [type |-> "mdat", offset |-> mdat_off + size1 + free_size,
                      size |-> size2, real_size |-> size2, box |-> FALSE]
        mdats     == IF msplit = 0 THEN <<mdat1>>
                     ELSE IF free_size # 0 THEN <<mdat1, free_a, mdat2>>
                     ELSE <<mdat1, mdat2>>
        data_end  == mdat_off + size1 + free_size + (IF msplit = 0 THEN 0 ELSE size2)
        moov_a    == [type |-> "moov",
                      offset |-> IF moov_first THEN FtypSize ELSE data_end,
                      size |-> moov_size, real_size |-> moov_size, box |-> FALSE]
    IN  [amoov |-> [blank EXCEPT !.trak =
                       [k \in DOMAIN shs |->
                           MakeTrak(shs[k], TrackOffsets(order, positions, k, 1))]],
         alist |-> IF moov_first THEN <<ftyp_a, moov_a>> \o mdats
                   ELSE <<ftyp_a>> \o mdats \o <<moov_a>>]

\* the movie duration that covers the longest track, in movie timescale
FullDuration(shs) ==
    LET durs == [k \in DOMAIN shs |->
                    Ceil(SumDurations(shs[k].stts) * MovieTimescale,
                         shs[k].mdhd_timescale)]
    IN  CHOOSE d \in {durs[k] : k \in DOMAIN durs} : \A k \in DOMAIN durs : durs[k] <= d

ShapeLists ==
    {<<TrakShapes[i]>> : i \in DOMAIN TrakShapes}
    \cup {<<TrakShapes[i], TrakShapes[j]>> : i \in DOMAIN TrakShapes,
                                             j \in DOMAIN TrakShapes}

Times == {<<n, TimeDen>> : n \in -1 .. MaxT}

None == <<>>

(***************************************************************************)
(* split_and_write(in_f, out_f, t)                                         *)
(***************************************************************************)
Init ==
    \E shs \in ShapeLists, moov_first \in BOOLEAN, g \in 0 .. MaxGap,
       msplit \in 0 .. MaxSplit, with_free \in BOOLEAN, ext64 \in BOOLEAN,
       short \in BOOLEAN :
        LET file == BuildFile(shs, moov_first, g * GapUnit,
                              IF msplit < Len(ChunkOrder(shs, 1, 1)) THEN msplit ELSE 0,
                              with_free, ext64,
                              IF short THEN FullDuration(shs) \div 2
                              ELSE FullDuration(shs))
        IN  /\ amoov = file.amoov
            /\ alist = file.alist
            /\ args = None
            /\ t = None
            /\ pc = "find_nearest_syncpoint"
            /\ nmoov = None
            /\ delta = 0
            /\ new_offset = 0
            /\ out_f = <<>>
            /\ ret = None

\* split_and_write(in_f, out_f, t) is called with some time tt;
\* split_atoms: t = find_nearest_syncpoint(amoov, t)
FindNearestSyncpoint ==
    /\ pc = "find_nearest_syncpoint"
    /\ \E tt \in Times :
          /\ args' = [t |-> tt]
          /\ t' = find_nearest_syncpoint(amoov, tt)
    /\ pc' = "cut_moov"
    /\ UNCHANGED <<alist, amoov, nmoov, delta, new_offset, out_f, ret>>

\* split_atoms: nmoov, delta, new_offset = cut_moov(amoov, t)
CutMoov ==
    /\ pc = "cut_moov"
    /\ cut_moov_raises(amoov, t) = ""
    /\ LET r == cut_moov(amoov, t)
       IN  /\ nmoov' = r.new_moov
           /\ delta' = r.delta
           /\ new_offset' = r.new_data_offset
    /\ pc' = "write_split_header"
    /\ UNCHANGED <<alist, amoov, t, out_f, args, ret>>

\* cut_moov raises; the exception leaves split_and_write
CutMoovRaises ==
    /\ pc = "cut_moov"
    /\ cut_moov_raises(amoov, t) # ""
    /\ ret' = cut_moov_raises(amoov, t)
    /\ pc' = "raised"
    /\ UNCHANGED <<alist, amoov, t, nmoov, delta, new_offset, out_f, args>>

\* split_atoms: write_split_header(out_f, nmoov, alist, delta); the header
\* buffer of split and the output file are one sink here.  The moov atom of
\* alist is replaced by the new moov box (alist[moov_idx] = amoov), which
\* keeps the offset and size of its atom.
WriteSplitHeader ==
    /\ pc = "write_split_header"
    /\ write_split_header_raises(alist, delta) = ""
    /\ out_f' = out_f \o write_split_header(nmoov, alist, delta)
    /\ alist' = [alist EXCEPT ![find_atom(alist, "moov")].box = TRUE]
    /\ pc' = "copy_data"
    /\ UNCHANGED <<amoov, t, nmoov, delta, new_offset, args, ret>>

WriteSplitHeaderRaises ==
    /\ pc = "write_split_header"
    /\ write_split_header_raises(alist, delta) # ""
    /\ ret' = write_split_header_raises(alist, delta)
    /\ pc' = "raised"
    /\ UNCHANGED <<alist, amoov, t, nmoov, delta, new_offset, out_f, args>>

\* split_and_write: in_f.seek(new_offset); out_f.write(in_f.read())
CopyData ==
    /\ pc = "copy_data"
    /\ out_f' = Append(out_f, [kind |-> "data", type |-> "", size |-> new_offset,
                               bytes |-> Max(0, FileSize(alist) - new_offset)])
    /\ pc' = "done"
    /\ UNCHANGED <<alist, amoov, t, nmoov, delta, new_offset, args, ret>>

Next ==
    \/ FindNearestSyncpoint
    \/ CutMoov
    \/ CutMoovRaises
    \/ WriteSplitHeader
    \/ WriteSplitHeaderRaises
    \/ CopyData

Spec == Init /\ [][Next]_vars

(***************************************************************************)
(* Properties of split_and_write                                           *)
(***************************************************************************)
\* the requested or snapped time tt is at or beyond the movie duration
BeyondDuration(tt) ==
    tt[1] * amoov.mvhd.timescale >= amoov.mvhd.duration * tt[2]

\* cut_moov has returned
CutDone == pc \in {"write_split_header", "copy_data", "done"}

\* bytes of the output that precede the copied media data
HeaderRecords == SelectSeq(out_f, LAMBDA r : r.kind # "data")

HeaderBytes == OutBytes(HeaderRecords)

\* position in the output file of the source byte at offset p >= new_offset
OutPosition(p) == HeaderBytes + (p - new_offset)

\* number of the first sample of trak k that survives the cut
FirstSurviving(k) == Len(amoov.trak[k].stsz2) - Len(nmoov.trak[k].stsz2) + 1

\* offset in the source file of the first surviving sample of trak k
FirstSurvivingOffset(k) ==
    SampleOffset(amoov.trak[k].stco64, amoov.trak[k].stsc, amoov.trak[k].stsz2,
                 FirstSurviving(k))

\* least number of chunks that hold n samples under stsc
ChunksNeeded(stsc, n) ==
    CHOOSE c \in 0 .. n :
        /\ SamplesInChunks(stsc, c) >= n
        /\ \A d \in 0 .. (c - 1) : SamplesInChunks(stsc, d) < n

\* C1: after split_and_write, for every track the rewritten stco64[0] is the
\* position in the output file at which the first surviving sample of the
\* track begins.
C1_FirstChunkAtFirstSample ==
    pc = "done" =>
        \A k \in DOMAIN nmoov.trak :
            nmoov.trak[k].stco64[1] = OutPosition(FirstSurvivingOffset(k))

C7_ChunkCountMatchesStsc ==
    CutDone =>
        \A k \in DOMAIN nmoov.trak :
            Len(nmoov.trak[k].stco64)
                = ChunksNeeded(nmoov.trak[k].stsc, Len(nmoov.trak[k].stsz2))

C7_Witness ==
    /\ pc = "done"
    /\ \E k \in DOMAIN nmoov.trak :
          /\ Len(nmoov.trak[k].stsc) > Len(amoov.trak[k].stsc)
          /\ Len(nmoov.trak[k].stco64) >= 2
          /\ Len(nmoov.trak[k].stco64) < Len(amoov.trak[k].stco64)

\* C10: after the split no rewritten chunk offset points before the first
\* copied media byte, the position new_data_offset takes in the output.
C10_OffsetsNotBeforeData ==
    pc = "done" =>
        \A k \in DOMAIN nmoov.trak :
            \A i \in DOMAIN nmoov.trak[k].stco64 :
                nmoov.trak[k].stco64[i] >= OutPosition(new_offset)

(***************************************************************************)
(* Direct calls of cut_trak and cut_stco64_stsc on one track, with every   *)
(* well-formed stsc of up to MaxRows rows over up to MaxChunks chunks      *)
(***************************************************************************)
MaxRows == 2

MaxChunks == 3

MaxSpc == 3

MaxOffsetChange == 1

\* the first run of a two-run stts holds 1 .. MaxFirstRun samples
MaxFirstRun == 2

\* offset of the first chunk, and bytes of other tracks between two chunks
BaseOffset == 100

ChunkPad == 3

\* size of sample k
SizeOf(k) == ((k * k) % 7) + 1

StscRows == {<<c, p, 1>> : c \in 1 .. MaxChunks, p \in 1 .. MaxSpc}

StscTables ==
    UNION {{tbl \in [1 .. n -> StscRows] :
               /\ tbl[1][1] = 1
               /\ \A i \in 1 .. (n - 1) : tbl[i][1] < tbl[i + 1][1]} : n \in 1 .. MaxRows}

\* an stts or ctts of n samples: one run (j = 0), or two runs with j samples
\* in the first
RunTable(n, j, d1, d2) ==
    IF j = 0 THEN << <<n, d1>> >> ELSE << <<j, d2>>, <<n - j, d1>> >>

RECURSIVE ChunkOffsets(_, _, _, _, _)
ChunkOffsets(stsc, stsz2, c, nchunks, pos) ==
    IF c > nchunks THEN <<>>
    ELSE <<pos>> \o ChunkOffsets(stsc, stsz2, c + 1, nchunks,
                                 pos + ChunkBytes(stsc, stsz2, c) + ChunkPad)

\* the track with the given stsc over nchunks chunks; j splits stts and ctts
CutTrakInput(stsc, nchunks, j) ==
    MakeTrak([mdhd_timescale |-> 1,
              stts |-> RunTable(SamplesInChunks(stsc, nchunks), j, 2, 1),
              has_ctts |-> TRUE,
              ctts |-> RunTable(SamplesInChunks(stsc, nchunks),
                                IF j = 0 THEN 0
                                ELSE SamplesInChunks(stsc, nchunks) - j, 0, 3),
              has_stss |-> TRUE,
              stss |-> IF SamplesInChunks(stsc, nchunks) = 1 THEN <<1>>
                       ELSE <<1, SamplesInChunks(stsc, nchunks)>>,
              stsz2 |-> [k \in 1 .. SamplesInChunks(stsc, nchunks) |-> SizeOf(k)],
              stsc |-> stsc, nchunks |-> nchunks, co64 |-> FALSE],
             ChunkOffsets(stsc, [k \in 1 .. SamplesInChunks(stsc, nchunks) |-> SizeOf(k)],
                          1, nchunks, BaseOffset))

InitCut ==
    \E stsc \in StscTables, nchunks \in 1 .. MaxChunks :
      \E j \in 0 .. Min(SamplesInChunks(stsc, nchunks) - 1, MaxFirstRun) :
        /\ stsc[Len(stsc)][1] <= nchunks
        /\ args = [atrak |-> CutTrakInput(stsc, nchunks, j)]
        /\ pc = "call"
        /\ ret = None
        /\ alist = <<>>
        /\ amoov = None
        /\ t = <<0, 1>>
        /\ nmoov = None
        /\ delta = 0
        /\ new_offset = 0
        /\ out_f = <<>>

\* number of samples of the track handed to the call
CutN == SumCounts(args.atrak.stts)

\* cut_trak(atrak, sample, data_offset_change)
CutTrak ==
    /\ pc = "call"
    /\ \E sample \in 1 .. CutN, off \in 0 .. MaxOffsetChange :
          /\ args' = [atrak |-> args.atrak, sample |-> sample, offset_change |-> off]
          /\ ret' = cut_trak(args.atrak, sample, off)
    /\ pc' = "cut_trak"
    /\ UNCHANGED <<alist, amoov, t, nmoov, delta, new_offset, out_f>>

\* cut_stco64_stsc(stco64, stsc, stsz2, chunk_num, sample_num, offset_change)
CutStco64Stsc ==
    /\ pc = "call"
    /\ \E sample \in 1 .. CutN, chunk \in 1 .. Len(args.atrak.stco64),
          off \in 0 .. MaxOffsetChange :
          /\ args' = [atrak |-> args.atrak, sample |-> sample, chunk_num |-> chunk,
                      offset_change |-> off]
          /\ ret' = cut_stco64_stsc(args.atrak.stco64, args.atrak.stsc,
                                    args.atrak.stsz2, chunk, sample, off)
    /\ pc' = "cut_stco64_stsc"
    /\ UNCHANGED <<alist, amoov, t, nmoov, delta, new_offset, out_f>>

NextCut == CutTrak \/ CutStco64Stsc

SpecCut == InitCut /\ [][NextCut]_vars

\* C2: after the cut at sample s*, every surviving sample s has, by the new
\* tables, the byte offset it had by the original tables minus offset_change.
C2_SampleOffsetsShifted ==
    pc = "cut_trak" =>
        \A s \in args.sample .. CutN :
            SampleOffset(ret.stco64, ret.stsc, ret.stsz2, s - args.sample + 1)
              = SampleOffset(args.atrak.stco64, args.atrak.stsc, args.atrak.stsz2, s)
                - args.offset_change

\* a cut inside a chunk of the first of two ranges: the lead samples of the
\* chunk are dropped and its offset moves to the cut sample
C2_Witness ==
    /\ pc = "cut_trak"
    /\ args.offset_change > 0
    /\ args.sample > 1
    /\ Len(args.atrak.stsc) = 2
    /\ Len(ret.stsc) = 3
    /\ Len(ret.stco64) >= 2
    /\ ret.stco64[1] > args.atrak.stco64[1] - args.offset_change
    /\ ret.stsc[1][2] < ret.stsc[2][2]

\* C8: after cut_trak at sample s*, the counts of the new stts, and of the
\* new ctts, sum to the length of the new sample-size table, N - s* + 1.
C8_CountsMatchSizes ==
    pc = "cut_trak" =>
        /\ SumCounts(ret.stts) = Len(ret.stsz2)
        /\ SumCounts(ret.ctts) = Len(ret.stsz2)
        /\ Len(ret.stsz2) = CutN - args.sample + 1

\* a cut strictly inside the second run of a two-run stts
C8_Witness ==
    /\ pc = "cut_trak"
    /\ Len(args.atrak.stts) = 2
    /\ Len(ret.stts) = 1
    /\ ret.stts[1][1] < args.atrak.stts[2][1]
    /\ Len(ret.ctts) = 2

\* C9: the stsc returned by cut_stco64_stsc starts at first_chunk 1 and its
\* first_chunk values increase strictly.
C9_StscSorted ==
    pc = "cut_stco64_stsc" =>
        /\ ret.stsc[1][1] = 1
        /\ \A i \in 1 .. (Len(ret.stsc) - 1) : ret.stsc[i][1] < ret.stsc[i + 1][1]

\* lead samples are discarded and a later range follows the cut chunk
C9_Witness ==
    /\ pc = "cut_stco64_stsc"
    /\ args.chunk_num = find_chunknum_stsc(args.atrak.stsc, args.sample)
    /\ Len(ret.stsc) = 3
    /\ ret.stsc[1][2] < ret.stsc[2][2]
    /\ ret.stsc[3][1] > 2

(***************************************************************************)
(* The same calls on a track whose stsz has a constant sample_size: the    *)
(* table read from such an stsz is empty                                   *)
(***************************************************************************)
MaxSampleSize == 2

\* the track of CutTrakInput with every sample of sample_size bytes
CutTrakConstInput(stsc, nchunks, j, sample_size) ==
    [CutTrakInput(stsc, nchunks, j) EXCEPT
        !.sample_size = sample_size,
        !.stsz2       = <<>>,
        !.stco64      = ChunkOffsets(stsc,
                            [k \in 1 .. SamplesInChunks(stsc, nchunks) |-> sample_size],
                            1, nchunks, BaseOffset)]

InitCutConst ==
    \E stsc \in StscTables, nchunks \in 1 .. MaxChunks, ss \in 1 .. MaxSampleSize :
      \E j \in 0 .. Min(SamplesInChunks(stsc, nchunks) - 1, MaxFirstRun) :
        /\ stsc[Len(stsc)][1] <= nchunks
        /\ args = [atrak |-> CutTrakConstInput(stsc, nchunks, j, ss)]
        /\ pc = "call"
        /\ ret = None
        /\ alist = <<>>
        /\ amoov = None
        /\ t = <<0, 1>>
        /\ nmoov = None
        /\ delta = 0
        /\ new_offset = 0
        /\ out_f = <<>>

SpecCutConst == InitCutConst /\ [][NextCut]_vars

\* number of samples of the cut chunk that precede the cut sample
LeadSamples ==
    args.sample
    - FirstSampleOfChunk(args.atrak.stsc, ChunkOfSample(args.atrak.stsc, args.sample))

\* C11: with a constant sample_size, a cut that drops lead_samples > 0
\* samples of its chunk adds lead_samples * sample_size to the first
\* rewritten chunk offset.
C11_ConstSizeLeadBytes ==
    (pc = "cut_trak" /\ args.atrak.sample_size # 0 /\ LeadSamples > 0) =>
        ret.stco64[1]
          = args.atrak.stco64[ChunkOfSample(args.atrak.stsc, args.sample)]
            - args.offset_change + LeadSamples * args.atrak.sample_size

(***************************************************************************)
(* Direct calls of find_samplenum_stts and find_mediatime_stts             *)
(***************************************************************************)
MaxRuns == 2

MaxCount == 3

MaxDelta == 3

SttsTables ==
    UNION {[1 .. n -> (1 .. MaxCount) \X (1 .. MaxDelta)] : n \in 1 .. MaxRuns}

InitStts ==
    \E stts \in SttsTables :
      \E mt \in 0 .. (SumDurations(stts) - 1) :
        /\ args = [stts |-> stts, mt |-> mt]
        /\ pc = "call"
        /\ ret = None
        /\ alist = <<>>
        /\ amoov = None
        /\ t = <<0, 1>>
        /\ nmoov = None
        /\ delta = 0
        /\ new_offset = 0
        /\ out_f = <<>>

\* sample = find_samplenum_stts(stts, mt)
FindSamplenumStts ==
    /\ pc = "call"
    /\ ret' = [sample |-> find_samplenum_stts(args.stts, args.mt)]
    /\ pc' = "find_mediatime_stts"
    /\ UNCHANGED <<alist, amoov, t, nmoov, delta, new_offset, out_f, args>>

\* find_mediatime_stts of that sample and of its neighbours
FindMediatimeStts ==
    /\ pc = "find_mediatime_stts"
    /\ ret' = [sample |-> ret.sample,
               mt_prev |-> find_mediatime_stts(args.stts, ret.sample - 1),
               mt_here |-> find_mediatime_stts(args.stts, ret.sample),
               mt_next |-> find_mediatime_stts(args.stts, ret.sample + 1)]
    /\ pc' = "return"
    /\ UNCHANGED <<alist, amoov, t, nmoov, delta, new_offset, out_f, args>>

NextStts == FindSamplenumStts \/ FindMediatimeStts

SpecStts == InitStts /\ [][NextStts]_vars

\* C4: the sample found for media time mt starts at or before mt and the
\* next sample starts after mt.
C4_SampleContainsTime ==
    pc = "return" => (ret.mt_here <= args.mt /\ ret.mt_next > args.mt)

\* C4 as amended: the sample found for mt is the first sample that starts
\* at or after mt (one past the last sample when mt lies inside the last
\* sample): it starts at or after mt, the sample before it (if any) starts
\* before mt, and the next sample starts after mt.
C4_FirstSampleAtOrAfter ==
    pc = "return" =>
        /\ ret.sample \in 1 .. (SumCounts(args.stts) + 1)
        /\ ret.mt_here >= args.mt
        /\ ret.sample > 1 => ret.mt_prev < args.mt
        /\ ret.mt_next > args.mt

\* mt falls strictly inside a sample of the second run
C4_Witness ==
    /\ pc = "return"
    /\ Len(args.stts) = 2
    /\ ret.sample > args.stts[1][1] + 1
    /\ ret.mt_prev < args.mt
    /\ args.mt < ret.mt_here

(***************************************************************************)
(* get_nearest_syncpoint(f, t) on a one-track file with any stss           *)
(***************************************************************************)
MaxSyncSamples == 4

\* ascending tables of sample numbers in 1 .. n
RECURSIVE Ascending(_)
Ascending(set) ==
    IF set = {} THEN <<>>
    ELSE LET m == CHOOSE x \in set : \A y \in set : x <= y
         IN  <<m>> \o Ascending(set \ {m})

SyncShape(set) ==
    [mdhd_timescale |-> 1, stts |-> << <<MaxSyncSamples, 1>> >>,
     has_ctts |-> FALSE, ctts |-> <<>>,
     has_stss |-> set # {}, stss |-> Ascending(set),
     stsz2 |-> [k \in 1 .. MaxSyncSamples |-> SizeOf(k)],
     stsc |-> << <<1, 1, 1>> >>, nchunks |-> MaxSyncSamples, co64 |-> FALSE]

InitSync ==
    \E set \in SUBSET (1 .. MaxSyncSamples), tt \in Times :
      \E file \in {BuildFile(<<SyncShape(set)>>, TRUE, 0, 0, FALSE, FALSE,
                             MaxSyncSamples * MovieTimescale)} :
        /\ amoov = file.amoov
        /\ alist = file.alist
        /\ args = [t |-> tt]
        /\ t = tt
        /\ pc = "get_nearest_syncpoint"
        /\ ret = None
        /\ nmoov = None
        /\ delta = 0
        /\ new_offset = 0
        /\ out_f = <<>>

\* print find_nearest_syncpoint(amoov, t)
GetNearestSyncpoint ==
    /\ pc = "get_nearest_syncpoint"
    /\ ret' = find_nearest_syncpoint(amoov, t)
    /\ pc' = "printed"
    /\ UNCHANGED <<alist, amoov, t, nmoov, delta, new_offset, out_f, args>>

NextSync == GetNearestSyncpoint

SpecSync == InitSync /\ [][NextSync]_vars

\* the sync times of the one track, in seconds: every sample of the track
\* lasts one tick of the media timescale
SyncTimes ==
    [k \in DOMAIN amoov.trak[1].stss |->
        <<amoov.trak[1].stss[k] - 1, amoov.trak[1].mdhd_timescale>>]

HasFound == \E i \in DOMAIN SyncTimes : ~ RLt(args.t, SyncTimes[i])

HasOther == \E i \in DOMAIN SyncTimes : RLt(args.t, SyncTimes[i])

\* the last sync time <= t
LastAtOrBefore ==
    SyncTimes[CHOOSE i \in DOMAIN SyncTimes :
                 /\ ~ RLt(args.t, SyncTimes[i])
                 /\ \A j \in DOMAIN SyncTimes : ~ RLt(args.t, SyncTimes[j]) => j <= i]

\* the first sync time > t
FirstAfter ==
    SyncTimes[CHOOSE i \in DOMAIN SyncTimes :
                 /\ RLt(args.t, SyncTimes[i])
                 /\ \A j \in DOMAIN SyncTimes : RLt(args.t, SyncTimes[j]) => i <= j]

DistFound == RAbs(RSub(args.t, LastAtOrBefore))

DistOther == RAbs(RSub(FirstAfter, args.t))

\* C5: with found the last sync time <= t and other the first sync time > t,
\* the result is the closer of the two, and found when both are equally far.
C5_NearestTiesToFound ==
    (pc = "printed" /\ HasFound /\ HasOther) =>
        REq(ret, IF RLt(DistOther, DistFound) THEN FirstAfter ELSE LastAtOrBefore)

\* C5 as amended: the result is the closer of the two, and other when both
\* are equally far; with no sync time > t the result is found.
C5_NearestTiesToOther ==
    (pc = "printed" /\ HasFound) =>
        REq(ret, IF ~ HasOther THEN LastAtOrBefore
                 ELSE IF RLt(DistFound, DistOther) THEN LastAtOrBefore
                 ELSE FirstAfter)

\* t is exactly halfway between two sync times
C5_Witness ==
    /\ pc = "printed"
    /\ HasFound
    /\ HasOther
    /\ REq(DistFound, DistOther)
    /\ REq(ret, FirstAfter)

\* C6: for t <= 0 the result is the first sync point, or 0 without sync points.
C6_ClampToFirstSync ==
    (pc = "printed" /\ ~ RLt(<<0, 1>>, args.t)) =>
        REq(ret, IF SyncTimes # <<>> THEN SyncTimes[1] ELSE <<0, 1>>)

(***************************************************************************)
(* Reading a table box and writing it back.  The body of a box (what       *)
(* follows its full-box head) is a sequence of big-endian unsigned fields  *)
(* [bytes, value]; a parsed box is [type, sample_size, table], sample_size *)
(* being 0 for every box but an stsz.                                      *)
(***************************************************************************)
MaxEntries == 2

MaxValue == 2

\* write_ulong / write_ulonglong: one field of 4 / 8 bytes
write_ulong(n) == [bytes |-> 4, value |-> n]

write_ulonglong(n) == [bytes |-> 8, value |-> n]

\* takeby(seq, n): the sequence itself for n = 1, else its rows of n
takeby(seq, n) ==
    IF n = 1 THEN seq
    ELSE [i \in 1 .. Ceil(Len(seq), n) |->
             SubSeq(seq, (i - 1) * n + 1, Min(i * n, Len(seq)))]

\* read_table on the fields that follow: entries rows of per_row values
read_table(fields, per_row, entries) ==
    IF entries = 0 THEN <<>>
    ELSE takeby([k \in 1 .. (per_row * entries) |-> fields[k].value], per_row)

\* stts.read, ctts.read ('LL'), stsc.read ('LLL'), stss.read, stco.read
\* ('L'), co64.read ('Q')
table_read(type, body, per_row) ==
    [type |-> type, sample_size |-> 0,
     table |-> read_table(Tail(body), per_row, body[1].value)]

stsz_read(body) ==
    [type |-> "stsz", sample_size |-> body[1].value,
     table |-> IF body[1].value = 0
               THEN read_table(Tail(Tail(body)), 1, body[2].value)
               ELSE <<>>]

PerRow(type) ==
    IF type \in {"stts", "ctts"} THEN 2 ELSE IF type = "stsc" THEN 3 ELSE 1

box_read(type, body) ==
    IF type = "stsz" THEN stsz_read(body) ELSE table_read(type, body, PerRow(type))

\* the loop of a write method over the rows of the table
RECURSIVE write_rows(_, _, _)
write_rows(table, per_row, bytes) ==
    IF table = <<>> THEN <<>>
    ELSE (IF per_row = 1 THEN <<[bytes |-> bytes, value |-> table[1]]>>
          ELSE [k \in 1 .. per_row |-> [bytes |-> bytes, value |-> table[1][k]]])
         \o write_rows(Tail(table), per_row, bytes)

\* stts.write, ctts.write, stss.write, stsc.write, stco.write, co64.write
table_write(box) ==
    <<write_ulong(Len(box.table))>>
    \o write_rows(box.table, PerRow(box.type), IF box.type = "co64" THEN 8 ELSE 4)

stsz_write(box) ==
    <<write_ulong(box.sample_size), write_ulong(Len(box.table))>>
    \o (IF box.sample_size = 0 THEN write_rows(box.table, 1, 4) ELSE <<>>)

box_write(box) ==
    IF box.type = "stsz" THEN stsz_write(box) ELSE table_write(box)

\* every sequence of n fields of the given width
FieldSeqs(n, bytes) ==
    [1 .. n -> {[bytes |-> bytes, value |-> v] : v \in 1 .. MaxValue}]

\* the well-formed bodies of the table box ty with n entries
TableBodies(ty, n) ==
    {[type |-> ty, body |-> <<write_ulong(n)>> \o fs] :
        fs \in FieldSeqs(n * PerRow(ty), IF ty = "co64" THEN 8 ELSE 4)}

\* the well-formed bodies of the stsz with sample_size ss and n samples
StszBodies(ss, n) ==
    {[type |-> "stsz", body |-> <<write_ulong(ss), write_ulong(n)>> \o fs] :
        fs \in FieldSeqs(IF ss = 0 THEN n ELSE 0, 4)}

InitBox ==
    \E ty \in {"stts", "ctts", "stss", "stsc", "stco", "co64", "stsz"},
       n \in 0 .. MaxEntries, ss \in 0 .. MaxSampleSize :
    \E b \in IF ty = "stsz" THEN StszBodies(ss, n) ELSE TableBodies(ty, n) :
        /\ ty = "stsz" \/ ss = 0
        /\ args = b
        /\ pc = "call"
        /\ ret = None
        /\ alist = <<>>
        /\ amoov = None
        /\ t = <<0, 1>>
        /\ nmoov = None
        /\ delta = 0
        /\ new_offset = 0
        /\ out_f = <<>>

\* cls.read(a)
BoxRead ==
    /\ pc = "call"
    /\ ret' = box_read(args.type, args.body)
    /\ pc' = "read"
    /\ UNCHANGED <<alist, amoov, t, nmoov, delta, new_offset, out_f, args>>

\* box.write(fobj): the body written after the head
BoxWrite ==
    /\ pc = "read"
    /\ out_f' = box_write(ret)
    /\ pc' = "written"
    /\ UNCHANGED <<alist, amoov, t, nmoov, delta, new_offset, args, ret>>

NextBox == BoxRead \/ BoxWrite

SpecBox == InitBox /\ [][NextBox]_vars

\* C12: a table box read and written back unmodified has the fields it was
\* read from; an stsz with sample_size != 0 keeps its sample_count.
C12_WriteReproducesRead ==
    pc = "written" => out_f = args.body

(***************************************************************************)
(* Faststart: move_header_to_front and move_header_and_write               *)
(***************************************************************************)
\* change_chunk_offsets(amoov, data_offset)
change_chunk_offsets(mv, data_offset) ==
    [mv EXCEPT !.trak = [k \in DOMAIN mv.trak |->
                            update_offsets(mv.trak[k], - data_offset)]]

\* move_header_to_front returns None: the moov precedes the first mdat
move_header_to_front_none_reversed(al) == find_atom(al, "moov") > find_atom(al, "mdat")

move_header_to_front_none(al) == find_atom(al, "moov") < find_atom(al, "mdat")

\* new_moov_idx that never looks for a wide atom
new_moov_idx_no_wide(al) == find_atom(al, "mdat")

\* new_moov_idx of move_header_to_front (1-based): the index of the first
\* mdat, or one less when some wide atom ends where that mdat starts
new_moov_idx(al) ==
    IF \E k \in DOMAIN al :
          /\ al[k].type = "wide"
          /\ al[k].offset + al[k].size = al[find_atom(al, "mdat")].offset
    THEN find_atom(al, "mdat") - 1
    ELSE find_atom(al, "mdat")

\* del alist[moov_idx]; alist[new_moov_idx:new_moov_idx] = [amoov]
move_moov(al, moov_idx, new_idx) ==
    SubSeq(al, 1, new_idx - 1)
    \o <<[al[moov_idx] EXCEPT !.box = TRUE]>>
    \o SubSeq(al, new_idx, moov_idx - 1)
    \o SubSeq(al, moov_idx + 1, Len(al))

\* what move_header_to_front leaves in amoov and returns as alist
move_header_to_front(al, mv) ==
    [amoov |-> change_chunk_offsets(mv, moov_get_size(mv)),
     alist |-> move_moov(al, find_atom(al, "moov"), new_moov_idx(al))]

\* write_atoms(alist, f): an atom is copied whole, the moov box is written
\* from its parsed form
write_atoms(al, mv) ==
    [k \in DOMAIN al |->
        IF al[k].box
        THEN [kind |-> "box", type |-> al[k].type, bytes |-> moov_get_size(mv),
              size |-> moov_get_size(mv)]
        ELSE [kind |-> "atom", type |-> al[k].type, bytes |-> al[k].size,
              size |-> al[k].size]]

\* read_iso_file on a file written by write_atoms: the atoms at the offsets
\* they were written to
RECURSIVE reread_atoms(_, _, _)
reread_atoms(o, k, pos) ==
    IF k > Len(o) THEN <<>>
    ELSE <<[type |-> o[k].type, offset |-> pos, size |-> o[k].bytes,
            real_size |-> o[k].bytes, box |-> FALSE]>>
         \o reread_atoms(o, k + 1, pos + o[k].bytes)

WideSize == 8

\* orders of the top-level atoms of the input files
FastLayouts ==
    { <<"ftyp", "mdat", "moov">>,
      <<"ftyp", "moov", "mdat">>,
      <<"ftyp", "wide", "mdat", "moov">>,
      <<"ftyp", "wide", "free", "mdat", "moov">>,
      <<"ftyp", "free", "mdat", "free", "moov">>,
      <<"ftyp", "moov", "wide", "mdat">>,
      <<"ftyp", "mdat", "mdat", "moov">>,
      <<"ftyp", "mdat", "wide", "mdat", "moov", "free">>,
      <<"ftyp", "mdat", "moov", "mdat">>,
      <<"wide", "mdat", "ftyp", "moov">> }

\* number of mdat atoms among the first i atoms
MdatsUpTo(types, i) == Cardinality({k \in 1 .. i : types[k] = "mdat"})

\* sizes of the atoms; m1 and m2 are the data bytes of the first and second mdat
AtomSizes(types, moov_size, m1, m2) ==
    [i \in DOMAIN types |->
        IF types[i] = "ftyp" THEN FtypSize
        ELSE IF types[i] = "free" THEN FreeSize
        ELSE IF types[i] = "wide" THEN WideSize
        ELSE IF types[i] = "moov" THEN moov_size
        ELSE 8 + (IF MdatsUpTo(types, i) = 1 THEN m1 ELSE m2)]

\* offset of every chunk of the file, in file order: the first n1 chunks lie
\* in the first mdat, the others in the second
FastChunkPositions(types, sizes, bytes, n1) ==
    [j \in DOMAIN bytes |->
        LET ord == IF j <= n1 THEN 1 ELSE 2
            i   == CHOOSE i \in DOMAIN types :
                       types[i] = "mdat" /\ MdatsUpTo(types, i) = ord
        IN  Sum(SubSeq(sizes, 1, i - 1)) + 8
            + Sum(SubSeq(bytes, IF ord = 1 THEN 1 ELSE n1 + 1, j - 1))]

\* the moov and the atom list of the file with the given order of atoms
FastFile(shs, types, msplit) ==
    LET order     == ChunkOrder(shs, 1, 1)
        bytes     == OrderBytes(shs, order)
        blank     == [mvhd |-> [timescale |-> MovieTimescale,
                                duration |-> FullDuration(shs)],
                      trak |-> [k \in DOMAIN shs |->
                                   MakeTrak(shs[k], [c \in 1 .. shs[k].nchunks |-> 0])]]
        n1        == IF MdatsUpTo(types, Len(types)) = 1 THEN Len(bytes)
                     ELSE Min(msplit, Len(bytes))
        sizes     == AtomSizes(types, moov_get_size(blank),
                               Sum(SubSeq(bytes, 1, n1)),
                               Sum(SubSeq(bytes, n1 + 1, Len(bytes))))
        positions == FastChunkPositions(types, sizes, bytes, n1)
    IN  [amoov |-> [blank EXCEPT !.trak =
                       [k \in DOMAIN shs |->
                           MakeTrak(shs[k], TrackOffsets(order, positions, k, 1))]],
         alist |-> [i \in DOMAIN types |->
                       [type |-> types[i], offset |-> Sum(SubSeq(sizes, 1, i - 1)),
                        size |-> sizes[i], real_size |-> sizes[i], box |-> FALSE]]]

InitFast ==
    \E shs \in ShapeLists, types \in FastLayouts, msplit \in 1 .. MaxSplit :
        LET file == FastFile(shs, types, msplit)
        IN  /\ amoov = file.amoov
            /\ alist = file.alist
            /\ args = [in_f |-> file, calls |-> 1]
            /\ pc = "move_header_to_front"
            /\ ret = None
            /\ t = <<0, 1>>
            /\ nmoov = None
            /\ delta = 0
            /\ new_offset = 0
            /\ out_f = <<>>

\* move_header_and_write: alist = move_header_to_front(in_f), a list
MoveHeaderToFront ==
    /\ pc = "move_header_to_front"
    /\ ~ move_header_to_front_none(alist)
    /\ alist' = move_header_to_front(alist, amoov).alist
    /\ amoov' = move_header_to_front(alist, amoov).amoov
    /\ pc' = "write_atoms"
    /\ UNCHANGED <<t, nmoov, delta, new_offset, out_f, args, ret>>

\* move_header_to_front returns None and move_header_and_write False
MoveHeaderToFrontNone ==
    /\ pc = "move_header_to_front"
    /\ move_header_to_front_none(alist)
    /\ ret' = FALSE
    /\ pc' = "returned"
    /\ UNCHANGED <<alist, amoov, t, nmoov, delta, new_offset, out_f, args>>

\* move_header_and_write: write_atoms(alist, out_f); return True
MoveHeaderAndWrite ==
    /\ pc = "write_atoms"
    /\ out_f' = out_f \o write_atoms(alist, amoov)
    /\ ret' = TRUE
    /\ pc' = "returned"
    /\ UNCHANGED <<alist, amoov, t, nmoov, delta, new_offset, args>>

\* move_header_and_write is called again, on the file it has written and
\* with a new output file
MoveHeaderAgain ==
    /\ pc = "returned"
    /\ ret = TRUE
    /\ args.calls = 1
    /\ alist' = reread_atoms(out_f, 1, 0)
    /\ args' = [in_f |-> [amoov |-> amoov, alist |-> reread_atoms(out_f, 1, 0)],
                calls |-> 2]
    /\ out_f' = <<>>
    /\ ret' = None
    /\ pc' = "move_header_to_front"
    /\ UNCHANGED <<amoov, t, nmoov, delta, new_offset>>

NextFast ==
    \/ MoveHeaderToFront
    \/ MoveHeaderToFrontNone
    \/ MoveHeaderAndWrite
    \/ MoveHeaderAgain

SpecFast == InitFast /\ [][NextFast]_vars

\* move_header_and_write has returned True
FastDone == pc = "returned" /\ ret = TRUE

\* position in the written file of the first byte of atom k of the list
WrittenAt(k) == Sum([i \in 1 .. k - 1 |-> out_f[i].bytes])

\* position in the written file of the media byte found at offset p of the input
MovedTo(p) ==
    LET k == CHOOSE k \in DOMAIN alist :
                 /\ alist[k].type = "mdat"
                 /\ alist[k].offset <= p
                 /\ p < alist[k].offset + alist[k].size
    IN  WrittenAt(k) + (p - alist[k].offset)

\* C13: when the moov follows the mdat, faststart raises every chunk offset
\* of every track by moov.get_size(), and that is the distance by which the
\* chunk's data has moved in the written file
C13_OffsetsFollowMovedData ==
    FastDone =>
        \A k \in DOMAIN amoov.trak : \A i \in DOMAIN amoov.trak[k].stco64 :
            /\ amoov.trak[k].stco64[i]
                 = args.in_f.amoov.trak[k].stco64[i] + moov_get_size(amoov)
            /\ amoov.trak[k].stco64[i] = MovedTo(args.in_f.amoov.trak[k].stco64[i])

\* every chunk offset is raised by moov.get_size()
C13_OffsetsRaisedBySize ==
    FastDone =>
        \A k \in DOMAIN amoov.trak : \A i \in DOMAIN amoov.trak[k].stco64 :
            amoov.trak[k].stco64[i]
              = args.in_f.amoov.trak[k].stco64[i] + moov_get_size(amoov)

\* the atoms of a list other than the moov, in order, named by type and offset
OtherAtoms(al) == SelectSeq([k \in DOMAIN al |-> <<al[k].type, al[k].offset, al[k].size>>], LAMBDA a : a[1] # "moov")

\* in the input the atom before the first mdat is a wide atom
WideBeforeMdat ==
    LET old == args.in_f.alist
    IN  /\ find_atom(old, "mdat") > 1
        /\ old[find_atom(old, "mdat") - 1].type = "wide"

\* C14: when the moov follows the mdat, the returned list has the moov just
\* before the first mdat, or just before the wide atom that directly precedes
\* that mdat; the other atoms keep their order and none is added or lost
C14_MoovBeforeMdatOrWide ==
    FastDone =>
        LET m == find_atom(alist, "moov")
        IN  /\ Len(alist) = Len(args.in_f.alist)
            /\ OtherAtoms(alist) = OtherAtoms(args.in_f.alist)
            /\ Cardinality({k \in DOMAIN alist : alist[k].type = "moov"}) = 1
            /\ IF WideBeforeMdat
               THEN /\ alist[m + 1].type = "wide"
                    /\ m + 2 = find_atom(alist, "mdat")
               ELSE m + 1 = find_atom(alist, "mdat")

C14_Witness ==
    /\ FastDone
    /\ WideBeforeMdat
    /\ find_atom(args.in_f.alist, "moov") > find_atom(args.in_f.alist, "mdat") + 1

\* in the input of the call the moov precedes the first mdat
AlreadyFast == find_atom(args.in_f.alist, "moov") < find_atom(args.in_f.alist, "mdat")

\* C15: move_header_and_write returns False and writes nothing when the moov
\* precedes the first mdat; a second application, to the result of a
\* successful one, returns False and leaves the chunk offsets unchanged
C15_SecondCallReturnsFalse ==
    /\ (pc = "returned" /\ AlreadyFast) =>
           /\ ret = FALSE
           /\ out_f = <<>>
           /\ amoov = args.in_f.amoov
           /\ alist = args.in_f.alist
    /\ (pc = "returned" /\ args.calls = 2) => AlreadyFast

C15_Witness ==
    /\ pc = "returned"
    /\ args.calls = 2
    /\ ret = FALSE
    /\ \E k \in DOMAIN alist : alist[k].type = "wide"

(***************************************************************************)
(* find_sync_points on movies of two tracks                                *)
(***************************************************************************)
MaxSyncTrakSamples == 3

\* the stts tables of the two tracks: MaxSyncTrakSamples samples each
SyncSttsTables ==
    { << <<MaxSyncTrakSamples, 1>> >>,
      << <<1, 2>>, <<MaxSyncTrakSamples - 1, 1>> >>,
      << <<MaxSyncTrakSamples - 1, 3>>, <<1, 2>> >> }

\* a track without stss (has_stss FALSE) or with the stss of the given set
SyncTrak(stts, timescale, has_stss, set) ==
    MakeTrak([mdhd_timescale |-> timescale, stts |-> stts,
              has_ctts |-> FALSE, ctts |-> <<>>,
              has_stss |-> has_stss, stss |-> IF has_stss THEN Ascending(set) ELSE <<>>,
              stsz2 |-> [k \in 1 .. MaxSyncTrakSamples |-> SizeOf(k)],
              stsc |-> << <<1, 1, 1>> >>, co64 |-> FALSE],
             [c \in 1 .. MaxSyncTrakSamples |-> BaseOffset + c])

InitSyncPoints ==
    \E stts1 \in SyncSttsTables, has1 \in BOOLEAN, has2 \in BOOLEAN :
    \E set1 \in SUBSET (1 .. MaxSyncTrakSamples), set2 \in SUBSET (1 .. MaxSyncTrakSamples) :
        /\ has1 \/ set1 = {}
        /\ has2 \/ set2 = {}
        /\ amoov = [mvhd |-> [timescale |-> MovieTimescale,
                              duration |-> MaxSyncTrakSamples * MovieTimescale],
                    trak |-> << SyncTrak(stts1, 1, has1, set1),
                                SyncTrak(<< <<MaxSyncTrakSamples, 2>> >>, 2, has2, set2) >>]
        /\ alist = <<>>
        /\ args = None
        /\ t = <<0, 1>>
        /\ pc = "find_sync_points"
        /\ ret = None
        /\ nmoov = None
        /\ delta = 0
        /\ new_offset = 0
        /\ out_f = <<>>

FindSyncPoints ==
    /\ pc = "find_sync_points"
    /\ ret' = find_sync_points(amoov)
    /\ pc' = "returned"
    /\ UNCHANGED <<alist, amoov, t, nmoov, delta, new_offset, out_f, args>>

NextSyncPoints == FindSyncPoints

SpecSyncPoints == InitSyncPoints /\ [][NextSyncPoints]_vars

\* the durations of the samples of a track, one per sample
RECURSIVE SampleDeltas(_)
SampleDeltas(stts) ==
    IF stts = <<>> THEN <<>>
    ELSE [k \in 1 .. stts[1][1] |-> stts[1][2]] \o SampleDeltas(Tail(stts))

\* the sync times of track k in seconds: the time of a sample is the sum of
\* the durations of the samples before it
SyncTimesOf(k) ==
    [i \in DOMAIN amoov.trak[k].stss |->
        << Sum(SubSeq(SampleDeltas(amoov.trak[k].stts), 1, amoov.trak[k].stss[i] - 1)),
           amoov.trak[k].mdhd_timescale >>]

\* the first of the tracks of set, in track order
FirstTrak(set) == CHOOSE k \in set : \A j \in set : k <= j

TraksWithStss == {k \in DOMAIN amoov.trak : amoov.trak[k].has_stss}

TraksWithSyncSamples == {k \in TraksWithStss : amoov.trak[k].stss # <<>>}

\* C16: find_sync_points returns the sync times of the first track that has
\* an stss, and the empty list when no track has one
C16_FirstTrakWithStss ==
    pc = "returned" =>
        ret = IF TraksWithStss = {} THEN <<>> ELSE SyncTimesOf(FirstTrak(TraksWithStss))

\* C16 (amended): find_sync_points returns the sync times of the first track
\* whose stss has at least one entry, and the empty list when there is none
C16_FirstTrakWithSyncSamples ==
    pc = "returned" =>
        ret = IF TraksWithSyncSamples = {} THEN <<>>
              ELSE SyncTimesOf(FirstTrak(TraksWithSyncSamples))

C16_Witness ==
    /\ pc = "returned"
    /\ amoov.trak[1].has_stss
    /\ amoov.trak[1].stss = <<>>
    /\ Len(amoov.trak[1].stts) = 2
    /\ Len(ret) = 2

(***************************************************************************)
(* The cuts of SpecCut and, with them, the cuts of two tracks with more    *)
(* samples per chunk                                                       *)
(***************************************************************************)
ExampleChunks == 4

ExampleStscTables == { << <<1, 5, 1>>, <<3, 3, 1>> >>, << <<1, 4, 1>> >> }

InitCutExamples ==
    \E stsc \in StscTables \cup ExampleStscTables, nchunks \in 1 .. ExampleChunks :
      \E j \in 0 .. Min(SamplesInChunks(stsc, nchunks) - 1, MaxFirstRun) :
        /\ stsc[Len(stsc)][1] <= nchunks
        /\ nchunks <= (IF stsc \in ExampleStscTables THEN ExampleChunks ELSE MaxChunks)
        /\ args = [atrak |-> CutTrakInput(stsc, nchunks, j)]
        /\ pc = "call"
        /\ ret = None
        /\ alist = <<>>
        /\ amoov = None
        /\ t = <<0, 1>>
        /\ nmoov = None
        /\ delta = 0
        /\ new_offset = 0
        /\ out_f = <<>>

SpecCutExamples == InitCutExamples /\ [][NextCut]_vars

\* cut_trak has cut the track with stsc [(1,5,1),(3,3,1)] at sample 7
Cut17 ==
    /\ pc = "cut_trak"
    /\ args.atrak.stsc = << <<1, 5, 1>>, <<3, 3, 1>> >>
    /\ args.sample = 7

\* C17: for stsc [(1,5,1),(3,3,1)] and cut sample 7 find_chunknum_stsc gives
\* chunk 4 and the cut gives the stsc [(1,3,1)]
C17_Chunk4 ==
    Cut17 =>
        /\ find_chunknum_stsc(args.atrak.stsc, args.sample) = 4
        /\ Len(ret.stco64) = Len(args.atrak.stco64) - 3
        /\ ret.stsc = << <<1, 3, 1>> >>

\* C17 (amended): for stsc [(1,5,1),(3,3,1)] and cut sample 7
\* find_chunknum_stsc gives chunk 2, of the first range, and the cut gives
\* the stsc [(1,4,1),(2,3,1)]
C17_Chunk2 ==
    Cut17 =>
        /\ find_chunknum_stsc(args.atrak.stsc, args.sample) = 2
        /\ Len(ret.stco64) = Len(args.atrak.stco64) - 1
        /\ ret.stsc = << <<1, 4, 1>>, <<2, 3, 1>> >>

C17_Witness == Cut17 /\ Len(args.atrak.stco64) = 4 /\ Len(ret.stsz2) = 10

\* cut_stco64_stsc has been called with the chunk that holds the cut sample
\* and with the sizes of the samples of the track
CutInChunk ==
    /\ pc = "cut_stco64_stsc"
    /\ args.chunk_num = ChunkOfSample(args.atrak.stsc, args.sample)
    /\ Len(args.atrak.stsz2) >= args.sample

\* index of the stsc row of chunk c
RowOfChunk(stsc, c) ==
    CHOOSE i \in DOMAIN stsc :
        /\ stsc[i][1] <= c
        /\ \A j \in DOMAIN stsc : stsc[j][1] <= c => j <= i

\* the stsc rows behind the row of chunk c, renumbered from chunk c
RowsAfter(stsc, c) ==
    [k \in 1 .. (Len(stsc) - RowOfChunk(stsc, c)) |->
        << stsc[RowOfChunk(stsc, c) + k][1] - (c - 1),
           stsc[RowOfChunk(stsc, c) + k][2],
           stsc[RowOfChunk(stsc, c) + k][3] >>]

\* the stsc the claim describes for a cut with lead samples in chunk c
ExpectedStsc(stsc, c, lead) ==
    LET row  == stsc[RowOfChunk(stsc, c)]
        rest == RowsAfter(stsc, c)
    IN  IF lead = 0 THEN << <<1, row[2], row[3]>> >> \o rest
        ELSE << <<1, row[2] - lead, row[3]>> >>
             \o (IF rest # <<>> /\ rest[1][1] = 2 THEN <<>>
                 ELSE << <<2, row[2], row[3]>> >>)
             \o rest

C18_WitnessBoundary ==
    /\ CutInChunk
    /\ args.chunk_num > 1
    /\ LeadSamples = 0

(***************************************************************************)
(* cut_moov on movies whose tkhd durations are not derived from the mdhd   *)
(***************************************************************************)
MaxTkhdExtra == 1

\* the movie with extra added to the tkhd duration of every track: the tkhd
\* duration is a field of the file of its own (an edit list or another
\* rounding makes it differ from the scaled mdhd duration)
WithTkhdExtra(mv, extra) ==
    [mv EXCEPT !.trak = [k \in DOMAIN mv.trak |->
                            [mv.trak[k] EXCEPT !.tkhd_duration = @ + extra]]]

InitCutMoov ==
    \E shs \in ShapeLists, moov_first \in BOOLEAN, short \in BOOLEAN,
       extra \in 0 .. MaxTkhdExtra, tt \in Times :
        LET file == BuildFile(shs, moov_first, 0, 0, FALSE, FALSE,
                              IF short THEN FullDuration(shs) \div 2
                              ELSE FullDuration(shs))
        IN  /\ amoov = WithTkhdExtra(file.amoov, extra)
            /\ alist = file.alist
            /\ args = [t |-> tt]
            /\ t = tt
            /\ pc = "cut_moov"
            /\ nmoov = None
            /\ delta = 0
            /\ new_offset = 0
            /\ out_f = <<>>
            /\ ret = None

NextCutMoov == CutMoov \/ CutMoovRaises

SpecCutMoov == InitCutMoov /\ [][NextCutMoov]_vars

\* cut_moov has returned from a cut at t = 0 of a movie whose first sync
\* point is at time 0
CutAtZero ==
    /\ pc = "write_split_header"
    /\ t[1] = 0
    /\ find_sync_points(amoov) # <<>>
    /\ find_sync_points(amoov)[1][1] = 0

\* the tables and the mdhd duration of every track are the original ones
SameTables ==
    /\ DOMAIN nmoov.trak = DOMAIN amoov.trak
    /\ \A k \in DOMAIN amoov.trak :
          /\ nmoov.trak[k].stts = amoov.trak[k].stts
          /\ nmoov.trak[k].has_ctts = amoov.trak[k].has_ctts
          /\ nmoov.trak[k].ctts = amoov.trak[k].ctts
          /\ nmoov.trak[k].has_stss = amoov.trak[k].has_stss
          /\ nmoov.trak[k].stss = amoov.trak[k].stss
          /\ nmoov.trak[k].stsz2 = amoov.trak[k].stsz2
          /\ nmoov.trak[k].sample_size = amoov.trak[k].sample_size
          /\ nmoov.trak[k].stsc = amoov.trak[k].stsc
          /\ nmoov.trak[k].stco64 = amoov.trak[k].stco64
          /\ nmoov.trak[k].mdhd_duration = amoov.trak[k].mdhd_duration

\* delta is 0, new_data_offset is the smallest first chunk offset and the
\* size of the moov is unchanged
SameOffsets ==
    /\ delta = 0
    /\ new_offset = MinOf([k \in DOMAIN amoov.trak |-> amoov.trak[k].stco64[1]])
    /\ moov_get_size(nmoov) = moov_get_size(amoov)

\* C19: a cut at t = 0 of a movie with a sync sample at time 0 reproduces
\* the moov: the tables and the mdhd and tkhd durations of every track are
\* the original ones, delta is 0, new_data_offset is the smallest first
\* chunk offset and the size of the moov is unchanged
C19_CutAtZeroReproducesMoov ==
    CutAtZero =>
        /\ SameTables
        /\ SameOffsets
        /\ \A k \in DOMAIN amoov.trak :
              nmoov.trak[k].tkhd_duration = amoov.trak[k].tkhd_duration

\* all of it but the tkhd durations
C19_CutAtZeroReproducesTables == CutAtZero => (SameTables /\ SameOffsets)

(***************************************************************************)
(* write_split_header in the pipeline of Spec                              *)
(***************************************************************************)
\* cut_moov has returned and write_split_header has been called
HeaderCalled == pc \in {"raised", "copy_data", "done"} /\ nmoov # None

\* from the first mdat on, an atom that starts before the cut offset is not
\* an mdat
MixedAtoms ==
    LET first == alist[find_atom(alist, "mdat")]
    IN  \E k \in find_atom(alist, "mdat") .. Len(alist) :
            /\ alist[k].offset < first.offset + head_size(first) + delta
            /\ alist[k].type # "mdat"

\* C20: when, from the first mdat on, an atom that starts before the cut
\* offset is not an mdat, write_split_header raises FormatError and nothing
\* has been written to the output
C20_MixedAtomsRaiseBeforeWrite ==
    (HeaderCalled /\ MixedAtoms) =>
        /\ pc = "raised"
        /\ ret = "FormatError"
        /\ out_f = <<>>

C20_Witness ==
    /\ HeaderCalled
    /\ MixedAtoms
    /\ ret = "FormatError"
    /\ delta > 0
    /\ find_atom(alist, "moov") < find_atom(alist, "mdat")

(***************************************************************************)
(* Reading the versioned header boxes mvhd, tkhd and mdhd                  *)
(***************************************************************************)
MaxVersion == 3

MaxHdrValue == 3

\* the exception of ver_skip(atom, sizes) and of ver_read(atom, readers) for
\* a tuple of n entries: the test lets v = n through, and the index then
\* raises IndexError
ver_raises(v, n) ==
    IF v > n \/ v < 0 THEN "UnsuportedVersion"
    ELSE IF v >= n THEN "IndexError"
    ELSE ""

\* number of bytes ver_skip(a, (8, 16)) skips
ver_skip(v) == IF v = 0 THEN 8 ELSE 16

\* ver_read(a, (read_ulong, read_ulonglong)): the number of bytes of the field
ver_read(v) == IF v = 0 THEN 4 ELSE 8

\* the exception of mvhd.read, tkhd.read and mdhd.read: ver_skip comes first
hdr_read_raises(type, v) ==
    IF ver_raises(v, 2) # "" THEN ver_raises(v, 2) ELSE ""

\* the box read from a header of version v with the given fields; for tkhd
\* the first field is the track id, for mvhd and mdhd the timescale
hdr_read(type, v, first, duration) ==
    IF type = "tkhd"
    THEN [type |-> type, id |-> first, duration |-> duration,
          consumed |-> ver_skip(v) + 4 + 4 + ver_read(v)]
    ELSE [type |-> type, timescale |-> first, duration |-> duration,
          consumed |-> ver_skip(v) + 4 + ver_read(v)]

InitHdr ==
    \E type \in {"mvhd", "tkhd", "mdhd"}, v \in 0 .. MaxVersion,
       first \in 1 .. MaxHdrValue, duration \in 0 .. MaxHdrValue :
        /\ args = [type |-> type, v |-> v, first |-> first, duration |-> duration]
        /\ pc = "call"
        /\ ret = None
        /\ alist = <<>>
        /\ amoov = None
        /\ t = <<0, 1>>
        /\ nmoov = None
        /\ delta = 0
        /\ new_offset = 0
        /\ out_f = <<>>

\* cls.read(a) returns the box
HdrRead ==
    /\ pc = "call"
    /\ hdr_read_raises(args.type, args.v) = ""
    /\ ret' = hdr_read(args.type, args.v, args.first, args.duration)
    /\ pc' = "read"
    /\ UNCHANGED <<alist, amoov, t, nmoov, delta, new_offset, out_f, args>>

\* cls.read(a) raises
HdrReadRaises ==
    /\ pc = "call"
    /\ hdr_read_raises(args.type, args.v) # ""
    /\ ret' = hdr_read_raises(args.type, args.v)
    /\ pc' = "raised"
    /\ UNCHANGED <<alist, amoov, t, nmoov, delta, new_offset, out_f, args>>

NextHdr == HdrRead \/ HdrReadRaises

SpecHdr == InitHdr /\ [][NextHdr]_vars

\* C21: reading an mvhd, tkhd or mdhd of a version other than 0 or 1 raises
\* UnsuportedVersion and no other error
C21_BadVersionUnsupported ==
    (pc # "call" /\ args.v \notin {0, 1}) =>
        /\ pc = "raised"
        /\ ret = "UnsuportedVersion"

(***************************************************************************)
(* cut_moov on the boxes as objects.  A box is a record of its fields; a   *)
(* field that holds another box holds its identity <<generation, track,    *)
(* class>>, so that two boxes can share a child and an assignment to a     *)
(* field of a box is seen through every reference to it.  The heap maps    *)
(* the identities to the boxes.                                            *)
(***************************************************************************)
TrakClasses ==
    {"trak", "tkhd", "mdia", "mdhd", "minf", "stbl", "stts", "ctts", "stss",
     "stsz2", "stsc", "stco64"}

\* the identities of the boxes of generation gen of the movie mv
BoxIds(mv, gen) ==
    {<<gen, 0, "moov">>, <<gen, 0, "mvhd">>}
    \cup {<<gen, k, c>> : k \in DOMAIN mv.trak, c \in TrakClasses \ {"ctts", "stss"}}
    \cup {<<gen, k, "ctts">> : k \in {j \in DOMAIN mv.trak : mv.trak[j].has_ctts}}
    \cup {<<gen, k, "stss">> : k \in {j \in DOMAIN mv.trak : mv.trak[j].has_stss}}

\* the box with identity <<gen, k, c>> that the read methods build for mv
ReadBox(mv, gen, k, c) ==
    CASE c = "moov" -> [mvhd |-> <<gen, 0, "mvhd">>,
                        trak |-> [j \in DOMAIN mv.trak |-> <<gen, j, "trak">>]]
      [] c = "mvhd" -> [timescale |-> mv.mvhd.timescale, duration |-> mv.mvhd.duration]
      [] c = "trak" -> [tkhd |-> <<gen, k, "tkhd">>, mdia |-> <<gen, k, "mdia">>]
      [] c = "tkhd" -> [duration |-> mv.trak[k].tkhd_duration]
      [] c = "mdia" -> [mdhd |-> <<gen, k, "mdhd">>, minf |-> <<gen, k, "minf">>]
      [] c = "mdhd" -> [timescale |-> mv.trak[k].mdhd_timescale,
                        duration |-> mv.trak[k].mdhd_duration]
      [] c = "minf" -> [stbl |-> <<gen, k, "stbl">>]
      [] c = "stbl" -> [stts |-> <<gen, k, "stts">>, stsc |-> <<gen, k, "stsc">>,
                        stsz2 |-> <<gen, k, "stsz2">>, stco64 |-> <<gen, k, "stco64">>,
                        ctts |-> IF mv.trak[k].has_ctts THEN <<gen, k, "ctts">> ELSE None,
                        stss |-> IF mv.trak[k].has_stss THEN <<gen, k, "stss">> ELSE None]
      [] c = "stts" -> [table |-> mv.trak[k].stts]
      [] c = "ctts" -> [table |-> mv.trak[k].ctts]
      [] c = "stss" -> [table |-> mv.trak[k].stss]
      [] c = "stsc" -> [table |-> mv.trak[k].stsc]
      [] c = "stsz2" -> [sample_size |-> mv.trak[k].sample_size,
                         stz2_field_size |-> mv.trak[k].stz2_field_size,
                         table |-> mv.trak[k].stsz2]
      [] c = "stco64" -> [co64 |-> mv.trak[k].co64, table |-> mv.trak[k].stco64]

\* the heap after moov.read
ReadMoov(mv) == [id \in BoxIds(mv, 0) |-> ReadBox(mv, 0, id[2], id[3])]

\* the fields of the track box tid, read through its references
LoadTrak(h, tid) ==
    LET mdia == h[h[tid].mdia]
        stbl == h[h[mdia.minf].stbl]
    IN  [tkhd_duration   |-> h[h[tid].tkhd].duration,
         mdhd_timescale  |-> h[mdia.mdhd].timescale,
         mdhd_duration   |-> h[mdia.mdhd].duration,
         stts            |-> h[stbl.stts].table,
         has_ctts        |-> stbl.ctts # None,
         ctts            |-> IF stbl.ctts # None THEN h[stbl.ctts].table ELSE <<>>,
         has_stss        |-> stbl.stss # None,
         stss            |-> IF stbl.stss # None THEN h[stbl.stss].table ELSE <<>>,
         sample_size     |-> h[stbl.stsz2].sample_size,
         stz2_field_size |-> h[stbl.stsz2].stz2_field_size,
         stsz2           |-> h[stbl.stsz2].table,
         stsc            |-> h[stbl.stsc].table,
         co64            |-> h[stbl.stco64].co64,
         stco64          |-> h[stbl.stco64].table]

\* the movie of the moov box mid, read through its references
LoadMoov(h, mid) ==
    [mvhd |-> h[h[mid].mvhd],
     trak |-> [k \in DOMAIN h[mid].trak |-> LoadTrak(h, h[mid].trak[k])]]

\* Box.copy(**kw): the fields of the box, those named in kw replaced
box_copy(box, kw) ==
    [f \in DOMAIN box |-> IF f \in DOMAIN kw THEN kw[f] ELSE box[f]]

\* the heap with the boxes of news added
Allocate(h, news) ==
    [id \in DOMAIN h \cup DOMAIN news |-> IF id \in DOMAIN news THEN news[id] ELSE h[id]]

\* cut_trak's last copy without the new tkhd: atrak.copy(mdia=new_mdia)
cut_trak_kw_no_tkhd(k) == [mdia |-> <<1, k, "mdia">>]

\* the keywords of cut_trak's last copy, atrak.copy(tkhd=new_tkhd, mdia=new_mdia)
cut_trak_kw(k) == [tkhd |-> <<1, k, "tkhd">>, mdia |-> <<1, k, "mdia">>]

\* the box cut_trak makes for class c of track k; stbl, mdia and tr are the
\* boxes of the original track and nf the fields cut_trak has computed
cut_trak_box(h, k, c, tr, mdia, stbl, nf) ==
    CASE c = "stco64" -> box_copy(h[stbl.stco64], [table |-> nf.stco64])
      [] c = "stsc"   -> box_copy(h[stbl.stsc], [table |-> nf.stsc])
      [] c = "stsz2"  -> box_copy(h[stbl.stsz2], [table |-> nf.stsz2])
      [] c = "stts"   -> box_copy(h[stbl.stts], [table |-> nf.stts])
      [] c = "ctts"   -> box_copy(h[stbl.ctts], [table |-> nf.ctts])
      [] c = "stss"   -> box_copy(h[stbl.stss], [table |-> nf.stss])
      [] c = "stbl"   -> box_copy(stbl,
                             [stts |-> <<1, k, "stts">>, stsc |-> <<1, k, "stsc">>,
                              stco64 |-> <<1, k, "stco64">>, stsz2 |-> <<1, k, "stsz2">>,
                              ctts |-> IF stbl.ctts # None THEN <<1, k, "ctts">> ELSE None,
                              stss |-> IF stbl.stss # None THEN <<1, k, "stss">> ELSE None])
      [] c = "minf"   -> box_copy(h[mdia.minf], [stbl |-> <<1, k, "stbl">>])
      [] c = "mdhd"   -> box_copy(h[mdia.mdhd], [duration |-> nf.mdhd_duration])
      [] c = "mdia"   -> box_copy(mdia, [mdhd |-> <<1, k, "mdhd">>,
                                         minf |-> <<1, k, "minf">>])
      [] c = "tkhd"   -> box_copy(h[tr.tkhd], <<>>)
      [] c = "trak"   -> box_copy(tr, cut_trak_kw(k))

\* cut_trak on the heap: the boxes of the new track k are added, no box of h
\* is assigned to
cut_trak_heap(h, k, sample, data_offset_change) ==
    Allocate(h,
        [id \in {<<1, k, c>> : c \in {cc \in TrakClasses : <<0, k, cc>> \in DOMAIN h}} |->
            cut_trak_box(h, k, id[3], h[<<0, k, "trak">>], h[h[<<0, k, "trak">>].mdia],
                         h[h[h[h[<<0, k, "trak">>].mdia].minf].stbl],
                         cut_trak(LoadTrak(h, <<0, k, "trak">>), sample,
                                  data_offset_change))])

\* map(cut_trak, traks, cut_info) from track k on
RECURSIVE cut_moov_new_traks(_, _, _, _)
cut_moov_new_traks(h, k, cut_info, data_offset_change) ==
    IF k > Len(cut_info) THEN h
    ELSE cut_moov_new_traks(cut_trak_heap(h, k, cut_info[k].sample, data_offset_change),
                            k + 1, cut_info, data_offset_change)

\* new_moov = amoov.copy(mvhd=amoov.mvhd.copy(), trak=new_traks)
cut_moov_new_moov(h, ntraks) ==
    Allocate(h,
        [id \in {<<1, 0, "mvhd">>, <<1, 0, "moov">>} |->
            IF id[3] = "mvhd" THEN box_copy(h[h[<<0, 0, "moov">>].mvhd], <<>>)
            ELSE box_copy(h[<<0, 0, "moov">>],
                          [mvhd |-> <<1, 0, "mvhd">>,
                           trak |-> [k \in 1 .. ntraks |-> <<1, k, "trak">>]])])

\* update_trak_duration(atrak): atrak.tkhd.duration = new_duration
update_trak_duration_heap(h, tid, ts) ==
    [h EXCEPT ![h[tid].tkhd].duration =
        (h[h[h[tid].mdia].mdhd].duration * ts) \div h[h[h[tid].mdia].mdhd].timescale]

\* update_offsets(atrak, data_offset_change): stco64.table = cut_stco64(...)
update_offsets_heap(h, tid, data_offset_change) ==
    [h EXCEPT ![h[h[h[h[tid].mdia].minf].stbl].stco64].table =
        cut_stco64(@, 1, data_offset_change, 0)]

\* map(update_trak_duration, new_traks) from track k on
RECURSIVE cut_moov_durations(_, _, _, _)
cut_moov_durations(h, traks, k, ts) ==
    IF k > Len(traks) THEN h
    ELSE cut_moov_durations(update_trak_duration_heap(h, traks[k], ts), traks, k + 1, ts)

\* map(update_offsets, new_traks) from track k on
RECURSIVE cut_moov_offsets(_, _, _, _)
cut_moov_offsets(h, traks, k, moov_size_diff) ==
    IF k > Len(traks) THEN h
    ELSE cut_moov_offsets(update_offsets_heap(h, traks[k], moov_size_diff), traks,
                          k + 1, moov_size_diff)

\* the end of cut_moov on the heap h that holds the new moov
cut_moov_heap_update(h, ts, moov_size_diff) ==
    cut_moov_offsets(cut_moov_durations(h, h[<<1, 0, "moov">>].trak, 1, ts),
                     h[<<1, 0, "moov">>].trak, 1, moov_size_diff)

\* cut_moov on the heap once the new boxes are made
cut_moov_heap_made(h0, h) ==
    cut_moov_heap_update(h, h0[h0[<<0, 0, "moov">>].mvhd].timescale,
        moov_get_size(LoadMoov(h0, <<0, 0, "moov">>))
        - moov_get_size(LoadMoov(h, <<1, 0, "moov">>)))

\* cut_moov on the heap once the cut_info of every trak is known
cut_moov_heap_info(h, cut_info, data_offset_change) ==
    cut_moov_heap_made(h,
        cut_moov_new_moov(cut_moov_new_traks(h, 1, cut_info, data_offset_change),
                          Len(cut_info)))

\* the heap cut_moov(amoov, tt) leaves
cut_moov_heap(h, mv, tt) ==
    cut_moov_heap_info(h,
        [k \in DOMAIN mv.trak |-> find_cut_trak_info(mv.trak[k], tt)],
        cut_moov(mv, tt).delta)

InitHeap ==
    \E shs \in ShapeLists, short \in BOOLEAN, tt \in Times :
        LET file == BuildFile(shs, TRUE, 0, 0, FALSE, FALSE,
                              IF short THEN FullDuration(shs) \div 2
                              ELSE FullDuration(shs))
        IN  /\ amoov = ReadMoov(file.amoov)
            /\ alist = file.alist
            /\ args = [heap |-> ReadMoov(file.amoov), t |-> tt]
            /\ t = tt
            /\ pc = "cut_moov"
            /\ nmoov = None
            /\ delta = 0
            /\ new_offset = 0
            /\ out_f = <<>>
            /\ ret = None

\* nmoov, delta, new_offset = cut_moov(amoov, t), on the boxes in memory
CutMoovHeap ==
    /\ pc = "cut_moov"
    /\ cut_moov_raises(LoadMoov(amoov, <<0, 0, "moov">>), t) = ""
    /\ amoov' = cut_moov_heap(amoov, LoadMoov(amoov, <<0, 0, "moov">>), t)
    /\ nmoov' = <<1, 0, "moov">>
    /\ delta' = cut_moov(LoadMoov(amoov, <<0, 0, "moov">>), t).delta
    /\ new_offset' = cut_moov(LoadMoov(amoov, <<0, 0, "moov">>), t).new_data_offset
    /\ pc' = "returned"
    /\ UNCHANGED <<alist, t, out_f, args, ret>>

CutMoovHeapRaises ==
    /\ pc = "cut_moov"
    /\ cut_moov_raises(LoadMoov(amoov, <<0, 0, "moov">>), t) # ""
    /\ ret' = cut_moov_raises(LoadMoov(amoov, <<0, 0, "moov">>), t)
    /\ pc' = "raised"
    /\ UNCHANGED <<alist, amoov, t, nmoov, delta, new_offset, out_f, args>>

NextHeap == CutMoovHeap \/ CutMoovHeapRaises

SpecHeap == InitHeap /\ [][NextHeap]_vars

\* the movie the new moov box holds is the one cut_moov computes on the fields
HeapAgreesWithCutMoov ==
    pc = "returned" =>
        LoadMoov(amoov, nmoov) = cut_moov(LoadMoov(args.heap, <<0, 0, "moov">>), t).new_moov

\* C22: after cut_moov has returned or raised, every box reachable from the
\* original moov has the tables and durations it had before the call
C22_InputNotMutated ==
    pc \in {"returned", "raised"} =>
        \A id \in DOMAIN args.heap : amoov[id] = args.heap[id]

\* a cut that changes the tkhd duration and the chunk offsets of a new track
C22_Witness ==
    /\ pc = "returned"
    /\ \E k \in DOMAIN amoov[nmoov].trak :
          /\ amoov[<<1, k, "tkhd">>].duration # amoov[<<0, k, "tkhd">>].duration
          /\ amoov[<<1, k, "stco64">>].table # amoov[<<0, k, "stco64">>].table
          /\ amoov[<<1, k, "mdhd">>].duration # amoov[<<0, k, "mdhd">>].duration

(***************************************************************************)
(* find_chunknum_stsc called on its own                                    *)
(***************************************************************************)
MaxSampleNum == 12

InitChunk ==
    \E stsc \in StscTables :
        /\ args = [stsc |-> stsc]
        /\ pc = "call"
        /\ ret = None
        /\ alist = <<>>
        /\ amoov = None
        /\ t = <<0, 1>>
        /\ nmoov = None
        /\ delta = 0
        /\ new_offset = 0
        /\ out_f = <<>>

\* find_chunknum_stsc(stsc, sample_num)
FindChunknumStsc ==
    /\ pc = "call"
    /\ \E sample_num \in 1 .. MaxSampleNum :
          /\ args' = [stsc |-> args.stsc, sample_num |-> sample_num]
          /\ ret' = find_chunknum_stsc(args.stsc, sample_num)
    /\ pc' = "returned"
    /\ UNCHANGED <<alist, amoov, t, nmoov, delta, new_offset, out_f>>

NextChunk == FindChunknumStsc

SpecChunk == InitChunk /\ [][NextChunk]_vars

\* C23: for a well-formed stsc and a sample number s >= 1 find_chunknum_stsc
\* returns the chunk c with first_sample(c) <= s < first_sample(c + 1), which
\* is (s - first sample of the range) // spc + first chunk of the range
C23_ChunkContainsSample ==
    pc = "returned" =>
        /\ ret >= 1
        /\ FirstSampleOfChunk(args.stsc, ret) <= args.sample_num
        /\ args.sample_num < FirstSampleOfChunk(args.stsc, ret + 1)
        /\ ret = ((args.sample_num
                   - FirstSampleOfChunk(args.stsc, args.stsc[RowOfChunk(args.stsc, ret)][1]))
                  \div args.stsc[RowOfChunk(args.stsc, ret)][2])
                 + args.stsc[RowOfChunk(args.stsc, ret)][1]

\* a sample inside a chunk of the second range, not the first chunk of it
C23_Witness ==
    /\ pc = "returned"
    /\ Len(args.stsc) = 2
    /\ ret > args.stsc[2][1]
    /\ args.stsc[1][2] # args.stsc[2][2]
    /\ args.sample_num > FirstSampleOfChunk(args.stsc, ret)

(***************************************************************************)
(* cut_stss called on its own                                              *)
(***************************************************************************)
MaxStssN == 4

MaxStssLen == 3

\* the ascending stss tables of a track of MaxStssN samples
StssTables ==
    UNION {{tbl \in [1 .. n -> 1 .. MaxStssN] :
               \A i \in 1 .. (n - 1) : tbl[i] <= tbl[i + 1]} : n \in 0 .. MaxStssLen}

InitStss ==
    \E stss \in StssTables :
        /\ args = [stss |-> stss]
        /\ pc = "call"
        /\ ret = None
        /\ alist = <<>>
        /\ amoov = None
        /\ t = <<0, 1>>
        /\ nmoov = None
        /\ delta = 0
        /\ new_offset = 0
        /\ out_f = <<>>

\* cut_stss(stss, sample)
CutStss ==
    /\ pc = "call"
    /\ \E sample \in 1 .. MaxStssN :
          /\ args' = [stss |-> args.stss, sample |-> sample]
          /\ ret' = cut_stss(args.stss, sample)
    /\ pc' = "returned"
    /\ UNCHANGED <<alist, amoov, t, nmoov, delta, new_offset, out_f>>

NextStss == CutStss

SpecStss == InitStss /\ [][NextStss]_vars

\* C24: for an ascending stss with entries in 1..N and a cut sample s* in
\* 1..N, cut_stss returns the entries >= s*, in order, each less s* - 1; they
\* lie in 1 .. N - s* + 1, and the first is 1 when s* is a sync sample
C24_EntriesFromCutSample ==
    pc = "returned" =>
        /\ ret = [k \in DOMAIN SelectSeq(args.stss, LAMBDA e : e >= args.sample) |->
                     SelectSeq(args.stss, LAMBDA e : e >= args.sample)[k]
                     - (args.sample - 1)]
        /\ \A k \in DOMAIN ret : ret[k] \in 1 .. (MaxStssN - args.sample + 1)
        /\ (\E i \in DOMAIN args.stss : args.stss[i] = args.sample) => ret[1] = 1

\* the cut sample is a sync sample, entries before it are dropped and
\* entries after it are kept
C24_Witness ==
    /\ pc = "returned"
    /\ args.sample > 1
    /\ Len(args.stss) = 3
    /\ Len(ret) = 2
    /\ ret[1] = 1
    /\ ret[2] > 1

(***************************************************************************)
(* update_mdat_atoms and the heads write_split_header writes for its result *)
(***************************************************************************)
MaxMdats == 3

MaxBody == 2

MaxSizeDelta == 4

\* the last loop of write_split_header: for every updated atom the size
\* field, the type and, for real_size = 1, the 64-bit size
write_updated_mdats(updated) ==
    [k \in DOMAIN updated |->
        IF updated[k].real_size = 1
        THEN <<write_ulong(updated[k].real_size), updated[k].type,
               write_ulonglong(updated[k].size)>>
        ELSE <<write_ulong(updated[k].real_size), updated[k].type>>]

\* the mdat atoms with the given body sizes, one after the other from offset
\* pos; ext[k] says that atom k has a 64-bit size
RECURSIVE MdatAtoms(_, _, _, _)
MdatAtoms(bodies, ext, k, pos) ==
    IF k > Len(bodies) THEN <<>>
    ELSE LET size == (IF ext[k] THEN 16 ELSE 8) + bodies[k]
         IN  <<[type |-> "mdat", offset |-> pos, size |-> size,
                real_size |-> IF ext[k] THEN 1 ELSE size, box |-> FALSE]>>
             \o MdatAtoms(bodies, ext, k + 1, pos + size)

InitMdat ==
    \E n \in 1 .. MaxMdats :
    \E bodies \in [1 .. n -> 0 .. MaxBody], ext \in [1 .. n -> BOOLEAN] :
        /\ alist = MdatAtoms(bodies, ext, 1, FtypSize)
        /\ args = None
        /\ pc = "call"
        /\ ret = None
        /\ amoov = None
        /\ t = <<0, 1>>
        /\ nmoov = None
        /\ delta = 0
        /\ new_offset = 0
        /\ out_f = <<>>

\* updated_mdats = update_mdat_atoms(to_update, size_delta) and the loop
\* that writes their heads
UpdateMdatAtoms ==
    /\ pc = "call"
    /\ \E size_delta \in 0 .. MaxSizeDelta :
          /\ args' = [size_delta |-> size_delta]
          /\ ret' = update_mdat_atoms(alist, size_delta)
          /\ out_f' = write_updated_mdats(update_mdat_atoms(alist, size_delta))
    /\ pc' = "written"
    /\ UNCHANGED <<alist, amoov, t, nmoov, delta, new_offset>>

NextMdat == UpdateMdatAtoms

SpecMdat == InitMdat /\ [][NextMdat]_vars

\* bytes of the body of atom k
BodyOf(k) == alist[k].size - head_size(alist[k])

\* bytes of the bodies of the atoms before atom k
BodiesBefore(k) == Sum([j \in 1 .. (k - 1) |-> BodyOf(j)])

\* what is left of delta when the walk comes to atom k
RemainingAt(k) == Max(0, args.size_delta - BodiesBefore(k))

\* the atom at which the walk stops
LastWalked ==
    IF BodiesBefore(Len(alist) + 1) >= args.size_delta
    THEN CHOOSE k \in DOMAIN alist :
             /\ BodiesBefore(k + 1) >= args.size_delta
             /\ \A j \in 1 .. (k - 1) : BodiesBefore(j + 1) < args.size_delta
    ELSE Len(alist)

\* C25: update_mdat_atoms walks the mdat atoms in order and shrinks each by
\* min(remaining delta, body size) until the remaining delta is 0; the
\* reductions sum to delta when the bodies hold delta bytes, no size falls
\* below the head size, and an atom with a 64-bit size is written with size
\* field 1 and its reduced size in the 64-bit field
C25_MdatsShrunkInOrder ==
    pc = "written" =>
        /\ Len(ret) = LastWalked
        /\ \A k \in DOMAIN ret :
              /\ ret[k].size = alist[k].size - Min(RemainingAt(k), BodyOf(k))
              /\ ret[k].size >= head_size(alist[k])
              /\ alist[k].real_size = 1 =>
                    out_f[k] = <<write_ulong(1), "mdat", write_ulonglong(ret[k].size)>>
              /\ alist[k].real_size # 1 =>
                    out_f[k] = <<write_ulong(ret[k].size), "mdat">>
        /\ BodiesBefore(Len(alist) + 1) >= args.size_delta =>
              Sum([k \in DOMAIN ret |-> alist[k].size - ret[k].size]) = args.size_delta

\* the delta empties the first atom and ends inside a second atom with a
\* 64-bit size
C25_Witness ==
    /\ pc = "written"
    /\ Len(alist) = 3
    /\ Len(ret) = 2
    /\ BodyOf(1) > 0
    /\ ret[1].size = head_size(alist[1])
    /\ alist[2].real_size = 1
    /\ ret[2].size > head_size(alist[2])
    /\ ret[2].size < alist[2].size

(***************************************************************************)
(* cut_moov on movies with tracks of different lengths                     *)
(***************************************************************************)
\* cut_moov was called with a time inside the movie
CutInRange ==
    /\ pc # "cut_moov"
    /\ 0 <= t[1]
    /\ t[1] * amoov.mvhd.timescale < amoov.mvhd.duration * t[2]

\* find_samplenum_stts gives for t a sample after the last one of track k
PastLastSample(k) ==
    find_samplenum_stts(amoov.trak[k].stts,
                        RoundMul(t, amoov.trak[k].mdhd_timescale))
        > SumCounts(amoov.trak[k].stts)

\* C26: cut_moov returns normally for every t with
\* 0 <= t * mvhd.timescale < mvhd.duration, also when a track is shorter
\* than the movie and t lies at or past the last sample of that track
C26_InRangeCutReturns ==
    CutInRange => pc = "write_split_header" /\ ret = None

\* with the time inside the movie cut_moov raises exactly when the sample
\* found for some track is one after its last sample, and then IndexError
C26_RaisesPastLastSample ==
    CutInRange =>
        /\ pc = "raised" <=> \E k \in DOMAIN amoov.trak : PastLastSample(k)
        /\ pc = "raised" => ret = "IndexError"

(***************************************************************************)
(* The mdat heads of a cut that ends in a second mdat atom                 *)
(***************************************************************************)
\* the heads write_split_header has written, in order
WrittenHeads == SelectSeq(out_f, LAMBDA e : e.kind = "head")

\* the mdat atoms of the source the heads were written for
HeadAtoms == to_update(alist, delta)

\* the cut offset lies inside the body of an mdat atom after the first one
CutInLaterMdat ==
    \E k \in DOMAIN alist :
        /\ k > find_atom(alist, "mdat")
        /\ alist[k].type = "mdat"
        /\ alist[k].offset + head_size(alist[k]) <= new_offset
        /\ new_offset < alist[k].offset + alist[k].size

\* bytes of the body of atom a at or after new_data_offset in the source
BodyAfterCut(a) ==
    Max(0, a.offset + a.size - Max(new_offset, a.offset + head_size(a)))

\* C27: when the cut offset lies inside a second or later mdat, the size
\* written in every mdat head is the head size of the atom plus the number
\* of its body bytes at or after new_data_offset
C27_HeadSizesCoverKeptBody ==
    (pc \in {"copy_data", "done"} /\ CutInLaterMdat) =>
        /\ Len(WrittenHeads) = Len(HeadAtoms)
        /\ \A k \in DOMAIN WrittenHeads :
              WrittenHeads[k].size
                  = head_size(HeadAtoms[k]) + BodyAfterCut(HeadAtoms[k])

(***************************************************************************)
(* The result of find_nearest_syncpoint as a member of the sync list       *)
(***************************************************************************)
\* ret is one of the sync points of the movie
IsSyncPoint ==
    \E i \in DOMAIN find_sync_points(amoov) : REq(ret, find_sync_points(amoov)[i])

\* C28: with a non-empty sync-point list find_nearest_syncpoint returns an
\* element of the list for every t, also when the first sync point is later
\* than time 0 and when t is later than the last sync point
C28_ResultIsSyncPoint ==
    (pc = "printed" /\ find_sync_points(amoov) # <<>>) => IsSyncPoint

\* the result is an element of the list whenever some sync point is <= t,
\* and otherwise it is the first sync point or 0
C28_ResultIsSyncPointOrZero ==
    (pc = "printed" /\ find_sync_points(amoov) # <<>>) =>
        /\ HasFound => IsSyncPoint
        /\ ~ HasFound => \/ REq(ret, find_sync_points(amoov)[1])
                         \/ REq(ret, <<0, 1>>)

====
